---- MODULE Spec2Model ----
(***************************************************************************)
(* A model of tangermeme/attribute.py: the hypothetical-attribution        *)
(* projector (hypothetical_attributions), the rescale-rule engine          *)
(* (DeepLiftShap) with its hook life cycle, and the batched driver         *)
(* (deep_lift_shap).                                                       *)
(*                                                                         *)
(* Numbers are exact rationals <<numerator, denominator>> in lowest terms  *)
(* with a positive denominator, so that the division of the rescale rule   *)
(* and the mean over the references are computed, not approximated.        *)
(* A tensor of shape (n, A, L) is a sequence of n rows, a row a sequence   *)
(* of A channels, a channel a sequence of L numbers.                       *)
(***************************************************************************)
EXTENDS Integers, Sequences, FiniteSets, TLC

VARIABLES
    \* ---- hypothetical_attributions(multipliers, X, references)
    proj_multipliers,    \* the argument `multipliers` (a tuple of tensors)
    proj_X,              \* the argument `X`
    proj_references,     \* the argument `references`
    projected_contribs,  \* the tuple returned, <<>> before the return
    proj_pc,             \* "called" | "returned" | "raised"
    \* ---- the model (a torch.nn.Module) the engine borrows
    layers,              \* its modules, in the order model.apply visits them
    weight,              \* the weight vector of its dense layer
    forward_hooks,       \* module -> ids in module._forward_hooks
    forward_pre_hooks,   \* module -> ids in module._forward_pre_hooks
    backward_hooks,      \* module -> ids in module._backward_hooks
    is_full_backward_hook, \* module -> "None" | "True" | "False"
    module_input,        \* module -> the attribute module.input, or NoTensor
    module_output,       \* module -> the attribute module.output, or NoTensor
    \* ---- one DeepLiftShap instance and its current attribute call
    forward_handles,     \* self.forward_handles
    backward_handles,    \* self.backward_handles
    pc,                  \* where the engine is
    cursor,              \* the module model.apply visits next
    inputs,              \* the argument `inputs`
    baselines,           \* the argument `baselines`
    outputs,             \* the model's outputs on cat([inputs, baselines])
    gradients,           \* the local `gradients`
    convergence_deltas,  \* the local `convergence_deltas`
    warned,              \* whether this call emitted the warning
    exc,                 \* the exception in flight, "none" if none
    ncalls,              \* attribute calls started so far
    calls_allowed,       \* attribute calls the run makes at most
    caller_args,         \* the (inputs, baselines) pairs the caller passes
    next_id,             \* the id the next hook handle gets
    call_first_id,       \* the first handle id of the current call
    \* ---- deep_lift_shap(model, X, ...)
    X,                   \* the argument `X`, shape (len(X), A, L)
    references,          \* the argument `references`: a generator or a tensor
    n_shuffles,          \* the argument `n_shuffles`
    batch_size,          \* the argument `batch_size`
    hypothetical,        \* the argument `hypothetical`
    random_state,        \* the argument `random_state`
    return_references,   \* the argument `return_references`
    loop_i,              \* the loop variable of `for i in trange(n)`
    Xi,                  \* the local `Xi`
    rj,                  \* the local `rj`
    attr_,               \* the local `attr_`: partial results not yet averaged
    z,                   \* the local `z`
    attributions,        \* the local `attributions`
    references_,         \* the local `references_`
    batch_X,             \* the local `_X` of the batch at the engine
    batch_references,    \* the local `_references` of the batch at the engine
    d_pc,                \* where deep_lift_shap is
    handed,              \* history: the pairs handed to the engine so far
    \* ---- attribute calls of several callers on one model
    calls,               \* caller -> its engine's handles, its call's position
                         \* and locals
    captured_by          \* history: module -> the caller whose forward pass
                         \* stored module.input and module.output, 0 if none

proj_vars == <<proj_multipliers, proj_X, proj_references, projected_contribs,
               proj_pc>>

model_vars == <<layers, weight, forward_hooks, forward_pre_hooks, backward_hooks,
                is_full_backward_hook, module_input, module_output>>

engine_vars == <<forward_handles, backward_handles, pc, cursor, inputs, baselines,
                 outputs, gradients, convergence_deltas, warned, exc, ncalls,
                 calls_allowed, caller_args, next_id, call_first_id>>

driver_vars == <<X, references, n_shuffles, batch_size, hypothetical,
                 random_state, return_references, loop_i, Xi, rj, attr_, z,
                 attributions, references_, batch_X, batch_references, d_pc,
                 handed>>

call_vars == <<calls, captured_by>>

vars == <<proj_vars, model_vars, engine_vars, driver_vars, call_vars>>

\* What the engine's steps leave alone, and what the projector's do
outside_engine == <<proj_vars, driver_vars, call_vars>>
outside_projector == <<model_vars, engine_vars, driver_vars, call_vars>>

(***************************************************************************)
(* Exact arithmetic                                                        *)
(***************************************************************************)
Abs(x) == IF x < 0 THEN -x ELSE x

RECURSIVE GCD(_, _)
GCD(a, b) == IF b = 0 THEN a ELSE GCD(b, a % b)

\* The rational n/d (d # 0) in lowest terms with a positive denominator.
Rat(n, d) ==
    LET s == IF d < 0 THEN -1 ELSE 1
        g == GCD(Abs(n), Abs(d))
    IN  <<(s * n) \div g, (s * d) \div g>>

RInt(i) == <<i, 1>>
RZero == RInt(0)
ROne == RInt(1)
RAdd(a, b) == Rat(a[1] * b[2] + b[1] * a[2], a[2] * b[2])
RSub(a, b) == Rat(a[1] * b[2] - b[1] * a[2], a[2] * b[2])
RMul(a, b) == Rat(a[1] * b[1], a[2] * b[2])
RDiv(a, b) == Rat(a[1] * b[2], a[2] * b[1])
RAbs(a) == <<Abs(a[1]), a[2]>>
RLess(a, b) == a[1] * b[2] < b[1] * a[2]

RECURSIVE RSum(_)
RSum(s) == IF s = <<>> THEN RZero ELSE RAdd(Head(s), RSum(Tail(s)))

(***************************************************************************)
(* Tensors                                                                 *)
(***************************************************************************)
\* A tensor held as a value: the model checker evaluates a function
\* expression anew whenever it is applied, and once when it is compared.
Evaluated(T) == IF T = T THEN T ELSE T

\* tensor.shape of a tensor of three dimensions
Shape(T) == <<Len(T), Len(T[1]), Len(T[1][1])>>

\* torch.zeros_like(T)
ZerosLike(T) ==
    [i \in 1..Len(T) |-> [a \in 1..Len(T[i]) |-> [p \in 1..Len(T[i][a]) |-> RZero]]]

\* T[:, c] = v : every row's channel c is set to v at every position
SetChannel(T, c, v) ==
    [i \in 1..Len(T) |->
        [a \in 1..Len(T[i]) |->
            [p \in 1..Len(T[i][a]) |-> IF a = c THEN v ELSE T[i][a][p]]]]

\* S - T and S * T, elementwise, for tensors of one shape
TSub(S, T) ==
    [i \in 1..Len(S) |->
        [a \in 1..Len(S[i]) |->
            [p \in 1..Len(S[i][a]) |-> RSub(S[i][a][p], T[i][a][p])]]]

TMul(S, T) ==
    [i \in 1..Len(S) |->
        [a \in 1..Len(S[i]) |->
            [p \in 1..Len(S[i][a]) |-> RMul(S[i][a][p], T[i][a][p])]]]

\* torch.sum(T, dim=1): the channel axis is summed away, shape (n, L)
SumDim1Wrong(T) ==
    [i \in 1..Len(T) |->
        [p \in 1..Len(T[i][1]) |->
            RSum([a \in 1..Len(T[i]) |-> T[i][a][1]])]]

SumDim1(T) ==
    [i \in 1..Len(T) |->
        [p \in 1..Len(T[i][1]) |->
            RSum([a \in 1..Len(T[i]) |-> T[i][a][p]])]]

\* T[:, c] = M for a matrix M of shape (n, L)
SetChannelFrom(T, c, M) ==
    [i \in 1..Len(T) |->
        [a \in 1..Len(T[i]) |->
            [p \in 1..Len(T[i][a]) |-> IF a = c THEN M[i][p] ELSE T[i][a][p]]]]

(***************************************************************************)
(* hypothetical_attributions                                               *)
(***************************************************************************)
\* One pass of the loop `for i in range(X[0].shape[1])`, run from channel i
\* to the last one, on the tensors multipliers[0], X[0], references[0].
RECURSIVE ProjectLoop(_, _, _, _, _)
ProjectLoop(i, contribs, mult, Xt, refs) ==
    IF i > Len(Xt[1]) THEN contribs
    ELSE LET hypothetical_input == SetChannel(ZerosLike(Xt), i, ROne)
             hypothetical_diffs == TSub(hypothetical_input, refs)
             hypothetical_contribs == TMul(hypothetical_diffs, mult)
         IN  ProjectLoop(i + 1,
                 SetChannelFrom(contribs, i, SumDim1(hypothetical_contribs)),
                 mult, Xt, refs)

\* The value hypothetical_attributions returns for valid arguments.
hypothetical_attributions(multipliers, Xt, refs) ==
    <<ProjectLoop(1, ZerosLike(refs[1]), multipliers[1], Xt[1],
                  refs[1])>>

\* The checks of the first loop: every argument a one-element tuple whose
\* tensor has the shape of multipliers[0].
ProjArgsValid(multipliers, Xt, refs) ==
    /\ Len(multipliers) = 1
    /\ \A val \in {Xt, refs} :
          /\ Len(val) = 1
          /\ Shape(val[1]) = Shape(multipliers[1])

\* The shapes (n, alphabet, length) the projector is run on.
ProjShapes == {<<1, 2, 2>>, <<2, 2, 1>>, <<1, 3, 1>>}

\* All tensors of one shape with entries drawn from the integers Vals.
TensorsOf(shape, Vals) ==
    [1..shape[1] -> [1..shape[2] -> [1..shape[3] -> {RInt(v) : v \in Vals}]]]

\* One-hot tensors: at every position exactly one channel is 1.
IsOneHot(T) ==
    \A i \in 1..Len(T) : \A p \in 1..Len(T[i][1]) :
        Cardinality({a \in 1..Len(T[i]) : T[i][a][p] = ROne}) = 1

OneHotTensors(shape) == {T \in TensorsOf(shape, 0..1) : IsOneHot(T)}

MultiplierValues == -1..1
ReferenceValues == 0..1

\* Arguments the first loop rejects: a tuple that is not of length one, a
\* tensor of another shape.
ProjBadArgs ==
    LET Z(s) == CHOOSE T \in TensorsOf(s, {0}) : TRUE
    IN  { <<(<<>>), <<Z(s)>>, <<Z(s)>>>> : s \in ProjShapes }
        \cup { <<(<<Z(s)>>), <<Z(s), Z(s)>>, <<Z(s)>>>> : s \in ProjShapes }
        \cup { <<(<<Z(st[1])>>), <<Z(st[1])>>, <<Z(st[2])>>>> :
                    st \in {x \in ProjShapes \X ProjShapes : x[1] # x[2]} }

ProjInit ==
    /\ \/ \E s \in ProjShapes :
             /\ proj_multipliers \in {<<T>> : T \in TensorsOf(s, MultiplierValues)}
             /\ proj_X \in {<<T>> : T \in OneHotTensors(s)}
             /\ proj_references \in {<<T>> : T \in TensorsOf(s, ReferenceValues)}
       \/ \E bad \in ProjBadArgs :
             /\ proj_multipliers = bad[1]
             /\ proj_X = bad[2]
             /\ proj_references = bad[3]
    /\ projected_contribs = <<>>
    /\ proj_pc = "called"

\* The projector is not part of the run.
ProjUnused ==
    /\ proj_multipliers = <<>>
    /\ proj_X = <<>>
    /\ proj_references = <<>>
    /\ projected_contribs = <<>>
    /\ proj_pc = "unused"

\* hypothetical_attributions raises ValueError on a malformed argument.
ProjectRaises ==
    /\ proj_pc = "called"
    /\ ~ProjArgsValid(proj_multipliers, proj_X, proj_references)
    /\ proj_pc' = "raised"
    /\ UNCHANGED <<proj_multipliers, proj_X, proj_references, projected_contribs>>
    /\ UNCHANGED outside_projector

\* hypothetical_attributions returns: new tensors are built, the arguments
\* are only read.
ProjectReturns ==
    /\ proj_pc = "called"
    /\ ProjArgsValid(proj_multipliers, proj_X, proj_references)
    /\ projected_contribs' =
           hypothetical_attributions(proj_multipliers, proj_X, proj_references)
    /\ proj_pc' = "returned"
    /\ UNCHANGED <<proj_multipliers, proj_X, proj_references>>
    /\ UNCHANGED outside_projector

ProjNext == ProjectRaises \/ ProjectReturns


(***************************************************************************)
(* The model being explained: a chain of modules over a dense layer        *)
(***************************************************************************)
Module(t, d) == [type |-> t, depth |-> d]

\* The architectures, each the list of its modules as model.apply visits
\* them (children before their container); depth is the nesting depth.
LinearModel == <<Module("Linear", 0)>>
LinearReLUModel ==
    <<Module("Linear", 1), Module("ReLU", 1), Module("Sequential", 0)>>
ReLULinearModel ==
    <<Module("ReLU", 1), Module("Linear", 1), Module("Sequential", 0)>>
ReLULinearReLUModel ==
    <<Module("ReLU", 1), Module("Linear", 1), Module("ReLU", 1),
      Module("Sequential", 0)>>
MaxPoolModel == <<Module("MaxPool", 0)>>
LinearMaxPoolModel ==
    <<Module("Linear", 1), Module("MaxPool", 1), Module("Sequential", 0)>>
NestedMaxPoolModel ==
    <<Module("MaxPool", 2), Module("Sequential", 1), Module("Linear", 1),
      Module("Sequential", 0)>>

SupportedModels ==
    {LinearModel, LinearReLUModel, ReLULinearModel, ReLULinearReLUModel}
MaxPoolModels == {MaxPoolModel, LinearMaxPoolModel, NestedMaxPoolModel}

\* The default of the parameter ignore_layers: (torch.nn.ReLU,)
ignore_layers == {"ReLU"}

\* The default of the parameter eps
eps == Rat(1, 1000000)

\* The default of the parameter warning_threshold
warning_threshold == Rat(1, 1000)

\* No tensor: a local not yet assigned, an attribute a module does not have
NoTensor == <<>>

\* A row of a tensor of shape (n, A, L) as the flat vector a dense layer reads
Flat(row) ==
    LET L == Len(row[1])
    IN  [f \in 1..(Len(row) * L) |-> row[((f - 1) \div L) + 1][((f - 1) % L) + 1]]

\* The flat vector v back in the shape (A, L) of `row`
Unflat(v, row) ==
    [a \in 1..Len(row) |-> [p \in 1..Len(row[a]) |-> v[(a - 1) * Len(row[a]) + p]]]

Dot(W, v) == RSum([f \in 1..Len(v) |-> RMul(RInt(W[f]), v[f])])

\* module(v): the forward function of one module on one row. A container's
\* children are modules of the list and have run before it.
ModuleForward(type, W, v) ==
    CASE type = "Linear" -> <<Dot(W, v)>>
      [] type = "ReLU" -> [f \in 1..Len(v) |-> IF RLess(RZero, v[f]) THEN v[f] ELSE RZero]
      [] OTHER -> v

\* (mutant) the dense layer's gradient taken as weight times input
ModuleBackwardTimesInput(type, W, v, grad_output) ==
    CASE type = "Linear" -> [f \in 1..Len(v) |-> RMul(RMul(RInt(W[f]), v[f]), grad_output[1])]
      [] type = "ReLU" -> [f \in 1..Len(v) |-> IF RLess(RZero, v[f]) THEN grad_output[f] ELSE RZero]
      [] OTHER -> grad_output

\* The gradient autograd computes for one module on one row: the gradient
\* with respect to the module's input v, from the one with respect to its
\* output.
ModuleBackward(type, W, v, grad_output) ==
    CASE type = "Linear" -> [f \in 1..Len(v) |-> RMul(RInt(W[f]), grad_output[1])]
      [] type = "ReLU" -> [f \in 1..Len(v) |-> IF RLess(RZero, v[f]) THEN grad_output[f] ELSE RZero]
      [] OTHER -> grad_output

\* The input and the output of every module from the k-th on, for one row
\* entering module k as v.
RECURSIVE RowTrace(_, _, _, _)
RowTrace(ls, W, k, v) ==
    IF k > Len(ls) THEN <<>>
    ELSE LET out == ModuleForward(ls[k].type, W, v)
         IN  <<[input |-> v, output |-> out]>> \o RowTrace(ls, W, k + 1, out)

\* self.model(inputs_): the trace of every row of the batch
BatchTrace(ls, W, batch) ==
    [i \in 1..Len(batch) |-> RowTrace(ls, W, 1, Flat(batch[i]))]

\* torch.cat([S, T]) along the batch axis
Cat(S, T) == S \o T

(***************************************************************************)
(* DeepLiftShap                                                            *)
(***************************************************************************)
Handle(m, kind, id) == [module |-> m, kind |-> kind, id |-> id]

\* Hooks of the engine carry the ids 1, 2, ...; a hook of another consumer
\* carries the id 0.
ForeignId == 0
EngineIds(ids) == {id \in ids : id # ForeignId}

\* (mutant) only the model and its direct children are inspected
HasMaxPoolShallow(ls) ==
    \E k \in 1..Len(ls) : ls[k].type = "MaxPool" /\ ls[k].depth <= 1

\* DeepLiftShap.__init__: the loop over model.named_modules()
HasMaxPool(ls) == \E k \in 1..Len(ls) : ls[k].type = "MaxPool"

\* (mutant) the backward hooks of the module are not looked at
_can_register_hook_by_type(m) ==
    IF ~(layers[m].type \in ignore_layers) THEN FALSE
    ELSE TRUE

\* DeepLiftShap._can_register_hook
_can_register_hook(m) ==
    IF backward_hooks[m] # {} THEN FALSE
    ELSE IF ~(layers[m].type \in ignore_layers) THEN FALSE
    ELSE TRUE

\* handle.remove(): the hook leaves the dictionary it was registered in, if
\* it is still there.
RemoveFrom(dict, kind, handles) ==
    [m \in DOMAIN dict |->
        dict[m] \ {h.id : h \in {x \in handles : x.module = m /\ x.kind = kind}}]

Range(seq) == {seq[i] : i \in 1..Len(seq)}

\* (mutant) the gradient with respect to the module's input is the one
\* rescaled
_backward_hook_same_gradient(cap_in, cap_out, grad_input, grad_output) ==
    LET n == Len(cap_in) \div 2
        half(i) == ((i - 1) % n) + 1
        delta_in(i, f) == RSub(cap_in[half(i)][f], cap_in[half(i) + n][f])
        delta_out(i, f) == RSub(cap_out[half(i)][f], cap_out[half(i) + n][f])
    IN  [i \in 1..Len(grad_input) |->
            [f \in 1..Len(grad_input[i]) |->
                IF RLess(RAbs(delta_in(i, f)), eps)
                THEN grad_input[i][f]
                ELSE RMul(grad_input[i][f],
                          RDiv(delta_out(i, f), delta_in(i, f)))]]

\* DeepLiftShap._backward_hook on a batch: module.input and module.output
\* are the captured tensors, grad_input and grad_output the gradients
\* autograd computed, each a sequence of rows.
_backward_hook(cap_in, cap_out, grad_input, grad_output) ==
    LET n == Len(cap_in) \div 2
        half(i) == ((i - 1) % n) + 1
        delta_in(i, f) == RSub(cap_in[half(i)][f], cap_in[half(i) + n][f])
        delta_out(i, f) == RSub(cap_out[half(i)][f], cap_out[half(i) + n][f])
    IN  [i \in 1..Len(grad_input) |->
            [f \in 1..Len(grad_input[i]) |->
                IF RLess(RAbs(delta_in(i, f)), eps)
                THEN grad_input[i][f]
                ELSE RMul(grad_output[i][f],
                          RDiv(delta_out(i, f), delta_in(i, f)))]]

\* The backward pass from module k down to the inputs: G is the gradient
\* with respect to the output of module k, row by row; a module carrying a
\* backward hook of the engine (bh) has its gradient rewritten from the
\* tensors stored on it (cap_in, cap_out).
RECURSIVE BackProp(_, _, _, _, _, _, _, _)
BackProp(ls, W, k, G, trace, bh, cap_in, cap_out) ==
    IF k = 0 THEN G
    ELSE LET native == [i \in 1..Len(G) |->
                 ModuleBackward(ls[k].type, W, trace[i][k].input, G[i])]
             rewritten ==
                 IF EngineIds(bh[k]) # {}
                 THEN _backward_hook(cap_in[k], cap_out[k], native, G)
                 ELSE native
         IN  BackProp(ls, W, k - 1, rewritten, trace, bh, cap_in, cap_out)

\* torch.autograd.grad(outputs_, inputs)[0], outputs_ the sum of the
\* outputs of the first half of the batch
AutogradGrad(ls, W, ins, bases, bh, cap_in, cap_out) ==
    LET batch == Cat(ins, bases)
        trace == BatchTrace(ls, W, batch)
        n == Len(ins)
        seed == [i \in 1..Len(batch) |->
                    [f \in 1..Len(trace[i][Len(ls)].output) |->
                        IF i <= n THEN ROne ELSE RZero]]
        G == BackProp(ls, W, Len(ls), seed, trace, bh, cap_in, cap_out)
    IN  [i \in 1..n |-> Unflat(G[i], ins[i])]

\* outputs[:, 0]
Column0(outs) == [i \in 1..Len(outs) |-> outs[i][1]]

\* abs(output_diff - input_diff), one number per example
ConvergenceDeltas(ins, bases, outs, grads) ==
    LET n == Len(ins)
        output_diff == [i \in 1..n |-> RSub(Column0(outs)[i], Column0(outs)[i + n])]
        input_diff == [i \in 1..n |->
            RSum(Flat(TMul(TSub(ins, bases), grads)[i]))]
    IN  [i \in 1..n |-> RAbs(RSub(output_diff[i], input_diff[i]))]

(***************************************************************************)
(* The engine's runs                                                       *)
(***************************************************************************)
\* How many attribute calls a run of the engine makes at most.
MaxCalls == 2

\* The weights of the scenario of the specification, and all weight vectors
ScenarioWeight == <<2, -1, 0, 0>>
WeightValues == {-1, 0, 2}
AllWeights == [1..4 -> WeightValues]

\* Rows of shape (4, 1): the one-hot rows and one row with a negative entry
EngineRows ==
    {[a \in 1..4 |-> <<RInt(IF a = c THEN 1 ELSE 0)>>] : c \in 1..4}
    \cup {<<(<<RInt(-1)>>), <<RInt(1)>>, <<RInt(0)>>, <<RInt(0)>>>>}

OneHotRow(c) == [a \in 1..4 |-> <<RInt(IF a = c THEN 1 ELSE 0)>>]

\* (inputs, baselines) pairs of equal shape: every pair of one row each and
\* pairs of two rows.
EqualShapeArgs ==
    {<<(<<x>>), <<b>>>> : x \in EngineRows, b \in EngineRows}
    \cup {<<(<<OneHotRow(c), OneHotRow(d)>>), <<OneHotRow(d), OneHotRow(c)>>>> :
              c \in 1..4, d \in 1..4}

\* The pairs of the runs that exercise the hook life cycle: the scenario of
\* the specification, a pair with equal outputs, a pair of two rows and a
\* pair whose shapes differ.
LifeCycleArgs ==
    { <<(<<OneHotRow(1)>>), <<OneHotRow(2)>>>>,
      <<(<<OneHotRow(3)>>), <<OneHotRow(4)>>>>,
      <<(<<OneHotRow(1), OneHotRow(2)>>), <<OneHotRow(2), OneHotRow(3)>>>>,
      <<(<<OneHotRow(1)>>), <<OneHotRow(2), OneHotRow(2)>>>> }

\* What another consumer did to one module before the engine came: nothing,
\* a full backward hook, a legacy backward hook registered and removed again
\* (which leaves _is_full_backward_hook False), forward and forward-pre hooks.
ForeignKinds == {"backward", "legacy", "forward"}

ForeignInit(m, kind) ==
    /\ forward_hooks =
          [k \in 1..Len(layers) |-> IF k = m /\ kind = "forward" THEN {ForeignId} ELSE {}]
    /\ forward_pre_hooks =
          [k \in 1..Len(layers) |-> IF k = m /\ kind = "forward" THEN {ForeignId} ELSE {}]
    /\ backward_hooks =
          [k \in 1..Len(layers) |-> IF k = m /\ kind = "backward" THEN {ForeignId} ELSE {}]
    /\ is_full_backward_hook =
          [k \in 1..Len(layers) |->
              IF k = m /\ kind = "backward" THEN "True"
              ELSE IF k = m /\ kind = "legacy" THEN "False"
              ELSE "None"]

EngineInit ==
    /\ \/ /\ layers \in SupportedModels \cup MaxPoolModels
          /\ weight = ScenarioWeight
          /\ \E m \in 0..Len(layers) : \E kind \in ForeignKinds :
                /\ m = 0 => kind = "forward"
                /\ ForeignInit(m, kind)
          /\ calls_allowed = MaxCalls
          /\ caller_args = LifeCycleArgs
       \/ /\ layers \in SupportedModels
          /\ weight \in AllWeights
          /\ ForeignInit(0, "forward")
          /\ calls_allowed = 1
          /\ caller_args = EqualShapeArgs
    /\ module_input = [k \in 1..Len(layers) |-> NoTensor]
    /\ module_output = [k \in 1..Len(layers) |-> NoTensor]
    /\ forward_handles = <<>>
    /\ backward_handles = <<>>
    /\ pc = "init"
    /\ cursor = 0
    /\ inputs = NoTensor
    /\ baselines = NoTensor
    /\ outputs = NoTensor
    /\ gradients = NoTensor
    /\ convergence_deltas = NoTensor
    /\ warned = FALSE
    /\ exc = "none"
    /\ ncalls = 0
    /\ next_id = 1
    /\ call_first_id = 1

\* The engine is not part of the run.
EngineUnused ==
    /\ layers = <<>>
    /\ weight = <<>>
    /\ forward_hooks = <<>>
    /\ forward_pre_hooks = <<>>
    /\ backward_hooks = <<>>
    /\ is_full_backward_hook = <<>>
    /\ module_input = <<>>
    /\ module_output = <<>>
    /\ forward_handles = <<>>
    /\ backward_handles = <<>>
    /\ pc = "unused"
    /\ cursor = 0
    /\ inputs = NoTensor
    /\ baselines = NoTensor
    /\ outputs = NoTensor
    /\ gradients = NoTensor
    /\ convergence_deltas = NoTensor
    /\ warned = FALSE
    /\ exc = "none"
    /\ ncalls = 0
    /\ calls_allowed = 0
    /\ caller_args = {}
    /\ next_id = 1
    /\ call_first_id = 1

ClearLocals ==
    /\ outputs' = NoTensor
    /\ gradients' = NoTensor
    /\ convergence_deltas' = NoTensor
    /\ warned' = FALSE

\* DeepLiftShap(model) raises ValueError: a max-pooling module was found.
ConstructRaises ==
    /\ pc = "init"
    /\ HasMaxPool(layers)
    /\ pc' = "construct_failed"
    /\ exc' = "ValueError"
    /\ UNCHANGED <<forward_handles, backward_handles, cursor, inputs, baselines,
                   outputs, gradients, convergence_deltas, warned, ncalls,
                   calls_allowed, caller_args, next_id, call_first_id>>
    /\ UNCHANGED model_vars
    /\ UNCHANGED outside_engine

\* DeepLiftShap(model) returns an engine with empty handle lists; after a
\* call has ended, a further engine may be built on the same model.
Construct ==
    /\ pc \in {"init", "returned", "raised"}
    /\ pc # "init" => ncalls < calls_allowed
    /\ ~HasMaxPool(layers)
    /\ forward_handles' = <<>>
    /\ backward_handles' = <<>>
    /\ pc' = "idle"
    /\ exc' = "none"
    /\ inputs' = NoTensor
    /\ baselines' = NoTensor
    /\ ClearLocals
    /\ UNCHANGED <<cursor, ncalls, calls_allowed, caller_args, next_id, call_first_id>>
    /\ UNCHANGED model_vars
    /\ UNCHANGED outside_engine

CallEnabled ==
    /\ pc \in {"idle", "returned", "raised"}
    /\ ncalls < calls_allowed

\* attribute(inputs, baselines): the assertion on the shapes fails, before
\* the try statement is entered.
AttributeAssertFails ==
    /\ CallEnabled
    /\ \E args \in caller_args :
          /\ Shape(args[1]) # Shape(args[2])
          /\ inputs' = args[1]
          /\ baselines' = args[2]
    /\ pc' = "raised"
    /\ exc' = "AssertionError"
    /\ ncalls' = ncalls + 1
    /\ call_first_id' = next_id
    /\ ClearLocals
    /\ UNCHANGED <<forward_handles, backward_handles, cursor, calls_allowed, caller_args, next_id>>
    /\ UNCHANGED model_vars
    /\ UNCHANGED outside_engine

\* (mutant) the shapes are not compared: the try statement is entered with
\* whatever arguments come.
AttributeEnterUnchecked ==
    /\ CallEnabled
    /\ \E args \in caller_args :
          /\ inputs' = args[1]
          /\ baselines' = args[2]
    /\ pc' = "register"
    /\ cursor' = 1
    /\ exc' = "none"
    /\ ncalls' = ncalls + 1
    /\ call_first_id' = next_id
    /\ ClearLocals
    /\ UNCHANGED <<forward_handles, backward_handles, calls_allowed, caller_args, next_id>>
    /\ UNCHANGED model_vars
    /\ UNCHANGED outside_engine

\* attribute(inputs, baselines): the assertion holds and the try statement
\* is entered; model.apply(self._register_hooks) starts at the first module.
AttributeEnter ==
    /\ CallEnabled
    /\ \E args \in caller_args :
          /\ Shape(args[1]) = Shape(args[2])
          /\ inputs' = args[1]
          /\ baselines' = args[2]
    /\ pc' = "register"
    /\ cursor' = 1
    /\ exc' = "none"
    /\ ncalls' = ncalls + 1
    /\ call_first_id' = next_id
    /\ ClearLocals
    /\ UNCHANGED <<forward_handles, backward_handles, calls_allowed, caller_args, next_id>>
    /\ UNCHANGED model_vars
    /\ UNCHANGED outside_engine

\* (mutant) model.apply returns after the first module
AfterModuleFirstOnly ==
    /\ cursor' = cursor + 1
    /\ pc' = "forward"

\* model.apply moves on to the next module, or returns after the last one
AfterModule ==
    /\ cursor' = cursor + 1
    /\ pc' = IF cursor = Len(layers) THEN "forward" ELSE "register"

\* _register_hooks(module) returns at once: the module takes no hook.
RegisterSkip ==
    /\ pc = "register"
    /\ ~_can_register_hook(cursor)
    /\ AfterModule
    /\ UNCHANGED <<forward_handles, backward_handles, inputs, baselines, outputs,
                   gradients, convergence_deltas, warned, exc, ncalls,
                   calls_allowed, caller_args, next_id, call_first_id>>
    /\ UNCHANGED model_vars
    /\ UNCHANGED outside_engine

\* _register_hooks(module) registers the three hooks and appends their
\* handles to the lists of the engine.
RegisterHooks ==
    /\ pc = "register"
    /\ _can_register_hook(cursor)
    /\ is_full_backward_hook[cursor] # "False"
    /\ forward_hooks' = [forward_hooks EXCEPT ![cursor] = @ \cup {next_id}]
    /\ forward_pre_hooks' = [forward_pre_hooks EXCEPT ![cursor] = @ \cup {next_id + 1}]
    /\ backward_hooks' = [backward_hooks EXCEPT ![cursor] = @ \cup {next_id + 2}]
    /\ is_full_backward_hook' = [is_full_backward_hook EXCEPT ![cursor] = "True"]
    /\ forward_handles' = forward_handles
          \o <<Handle(cursor, "forward", next_id),
               Handle(cursor, "pre", next_id + 1)>>
    /\ backward_handles' = backward_handles
          \o <<Handle(cursor, "backward", next_id + 2)>>
    /\ next_id' = next_id + 3
    /\ AfterModule
    /\ UNCHANGED <<inputs, baselines, outputs, gradients, convergence_deltas,
                   warned, exc, ncalls, calls_allowed, caller_args, call_first_id>>
    /\ UNCHANGED <<layers, weight, module_input, module_output>>
    /\ UNCHANGED outside_engine

\* _register_hooks(module): the forward and the forward-pre hook are
\* registered, then register_full_backward_hook raises, because a legacy
\* backward hook was once registered on the module; no handle is appended
\* and the exception leaves model.apply for the finally clause.
RegisterHooksRaises ==
    /\ pc = "register"
    /\ _can_register_hook(cursor)
    /\ is_full_backward_hook[cursor] = "False"
    /\ forward_hooks' = [forward_hooks EXCEPT ![cursor] = @ \cup {next_id}]
    /\ forward_pre_hooks' = [forward_pre_hooks EXCEPT ![cursor] = @ \cup {next_id + 1}]
    /\ next_id' = next_id + 2
    /\ exc' = "RuntimeError"
    /\ pc' = "finally"
    /\ UNCHANGED <<forward_handles, backward_handles, cursor, inputs, baselines,
                   outputs, gradients, convergence_deltas, warned, ncalls,
                   calls_allowed, caller_args, call_first_id>>
    /\ UNCHANGED <<layers, weight, backward_hooks, is_full_backward_hook,
                   module_input, module_output>>
    /\ UNCHANGED outside_engine

\* (mutant) a module that has a capture keeps it
CapturedOnce(old, dict, last, trace, field) ==
    [m \in 1..Len(layers) |->
        IF m <= last /\ EngineIds(dict[m]) # {} /\ layers[m].type # "Sequential"
           /\ old[m] = NoTensor
        THEN [i \in 1..Len(trace) |->
                 IF field = "input" THEN trace[i][m].input ELSE trace[i][m].output]
        ELSE old[m]]

\* The forward pass over cat([inputs, baselines]) up to module `last`: a
\* module carrying a forward-pre (forward) hook of the engine has its input
\* (output) stored in module.input (module.output).
Captured(old, dict, last, trace, field) ==
    [m \in 1..Len(layers) |->
        IF m <= last /\ EngineIds(dict[m]) # {} /\ layers[m].type # "Sequential"
        THEN [i \in 1..Len(trace) |->
                 IF field = "input" THEN trace[i][m].input ELSE trace[i][m].output]
        ELSE old[m]]

\* outputs = self.model(inputs_)
ForwardPass ==
    /\ pc = "forward"
    /\ LET trace == BatchTrace(layers, weight, Cat(inputs, baselines))
       IN  /\ module_input' = Captured(module_input, forward_pre_hooks,
                                       Len(layers), trace, "input")
           /\ module_output' = Captured(module_output, forward_hooks,
                                        Len(layers), trace, "output")
           /\ outputs' = [i \in 1..Len(trace) |-> trace[i][Len(layers)].output]
    /\ pc' = "backward"
    /\ UNCHANGED <<forward_handles, backward_handles, cursor, inputs, baselines,
                   gradients, convergence_deltas, warned, exc, ncalls,
                   calls_allowed, caller_args, next_id, call_first_id>>
    /\ UNCHANGED <<layers, weight, forward_hooks, forward_pre_hooks,
                   backward_hooks, is_full_backward_hook>>
    /\ UNCHANGED outside_engine

\* The forward pass raises inside the model, after the modules before
\* `failing` have run.
ForwardRaises ==
    /\ pc = "forward"
    /\ \E failing \in 1..Len(layers) :
          LET trace == BatchTrace(layers, weight, Cat(inputs, baselines))
          IN  /\ module_input' = Captured(module_input, forward_pre_hooks,
                                          failing - 1, trace, "input")
              /\ module_output' = Captured(module_output, forward_hooks,
                                           failing - 1, trace, "output")
    /\ exc' = "ForwardError"
    /\ pc' = "finally"
    /\ UNCHANGED <<forward_handles, backward_handles, cursor, inputs, baselines,
                   outputs, gradients, convergence_deltas, warned, ncalls,
                   calls_allowed, caller_args, next_id, call_first_id>>
    /\ UNCHANGED <<layers, weight, forward_hooks, forward_pre_hooks,
                   backward_hooks, is_full_backward_hook>>
    /\ UNCHANGED outside_engine

\* gradients = torch.autograd.grad(outputs_, inputs)[0]
BackwardPass ==
    /\ pc = "backward"
    /\ gradients' = AutogradGrad(layers, weight, inputs, baselines,
                                 backward_hooks, module_input, module_output)
    /\ pc' = "validate"
    /\ UNCHANGED <<forward_handles, backward_handles, cursor, inputs, baselines,
                   outputs, convergence_deltas, warned, exc, ncalls,
                   calls_allowed, caller_args, next_id, call_first_id>>
    /\ UNCHANGED model_vars
    /\ UNCHANGED outside_engine

\* torch.autograd.grad raises.
BackwardRaises ==
    /\ pc = "backward"
    /\ exc' = "BackwardError"
    /\ pc' = "finally"
    /\ UNCHANGED <<forward_handles, backward_handles, cursor, inputs, baselines,
                   outputs, gradients, convergence_deltas, warned, ncalls,
                   calls_allowed, caller_args, next_id, call_first_id>>
    /\ UNCHANGED model_vars
    /\ UNCHANGED outside_engine

\* (mutant) the warning needs every delta above the threshold
TooHighAll(deltas) == \A i \in 1..Len(deltas) : RLess(warning_threshold, deltas[i])

\* any(convergence_deltas > self.warning_threshold)
TooHigh(deltas) == \E i \in 1..Len(deltas) : RLess(warning_threshold, deltas[i])

\* The convergence deltas are computed and, if one exceeds the threshold,
\* warnings.warn is called and returns.
Validate ==
    /\ pc = "validate"
    /\ convergence_deltas' = ConvergenceDeltas(inputs, baselines, outputs, gradients)
    /\ warned' = TooHigh(convergence_deltas')
    /\ pc' = "finally"
    /\ UNCHANGED <<forward_handles, backward_handles, cursor, inputs, baselines,
                   outputs, gradients, exc, ncalls, calls_allowed, caller_args, next_id,
                   call_first_id>>
    /\ UNCHANGED model_vars
    /\ UNCHANGED outside_engine

\* warnings.warn raises the warning as an exception (the caller's warning
\* filter is "error").
ValidateRaises ==
    /\ pc = "validate"
    /\ convergence_deltas' = ConvergenceDeltas(inputs, baselines, outputs, gradients)
    /\ TooHigh(convergence_deltas')
    /\ warned' = TRUE
    /\ exc' = "UserWarning"
    /\ pc' = "finally"
    /\ UNCHANGED <<forward_handles, backward_handles, cursor, inputs, baselines,
                   outputs, gradients, ncalls, calls_allowed, caller_args, next_id,
                   call_first_id>>
    /\ UNCHANGED model_vars
    /\ UNCHANGED outside_engine

\* (mutant) the handles are removed after the validation only, not in a
\* finally clause: an exception skips the removal.
RemoveWithoutFinally ==
    /\ pc = "finally"
    /\ forward_hooks' = IF exc = "none"
          THEN RemoveFrom(forward_hooks, "forward", Range(forward_handles))
          ELSE forward_hooks
    /\ forward_pre_hooks' = IF exc = "none"
          THEN RemoveFrom(forward_pre_hooks, "pre", Range(forward_handles))
          ELSE forward_pre_hooks
    /\ backward_hooks' = IF exc = "none"
          THEN RemoveFrom(backward_hooks, "backward", Range(backward_handles))
          ELSE backward_hooks
    /\ pc' = IF exc = "none" THEN "returned" ELSE "raised"
    /\ UNCHANGED <<forward_handles, backward_handles, cursor, inputs, baselines,
                   outputs, gradients, convergence_deltas, warned, exc, ncalls,
                   calls_allowed, caller_args, next_id, call_first_id>>
    /\ UNCHANGED <<layers, weight, is_full_backward_hook, module_input,
                   module_output>>
    /\ UNCHANGED outside_engine

\* The finally clause: every handle of self.forward_handles, then every
\* handle of self.backward_handles, is removed; then attribute returns
\* `gradients`, or the exception in flight leaves it.
Finally ==
    /\ pc = "finally"
    /\ forward_hooks' = RemoveFrom(forward_hooks, "forward", Range(forward_handles))
    /\ forward_pre_hooks' = RemoveFrom(forward_pre_hooks, "pre", Range(forward_handles))
    /\ backward_hooks' = RemoveFrom(backward_hooks, "backward", Range(backward_handles))
    /\ pc' = IF exc = "none" THEN "returned" ELSE "raised"
    /\ UNCHANGED <<forward_handles, backward_handles, cursor, inputs, baselines,
                   outputs, gradients, convergence_deltas, warned, exc, ncalls,
                   calls_allowed, caller_args, next_id, call_first_id>>
    /\ UNCHANGED <<layers, weight, is_full_backward_hook, module_input,
                   module_output>>
    /\ UNCHANGED outside_engine

EngineNext ==
    \/ ConstructRaises
    \/ Construct
    \/ AttributeAssertFails
    \/ AttributeEnter
    \/ RegisterSkip
    \/ RegisterHooks
    \/ RegisterHooksRaises
    \/ ForwardPass
    \/ ForwardRaises
    \/ BackwardPass
    \/ BackwardRaises
    \/ Validate
    \/ ValidateRaises
    \/ Finally

(***************************************************************************)
(* deep_lift_shap                                                          *)
(***************************************************************************)
\* The argument `references` when it is a function, and when it is a tensor
\* of shape (N, S, A, L)
Generator == [kind |-> "func"]
ReferenceTensor(T) == [kind |-> "tensor", value |-> T]

\* random_state is None, or <<s>> for the integer s
None == <<>>

\* The reference generator `references(x, n=1, random_state=seed)[:, 0]` on
\* one example: a deterministic function of the example and the seed. The
\* positions are rotated by the seed and the channels by seed // length.
Shuffle(x, seed) ==
    LET A == Len(x)
        L == Len(x[1])
    IN  [a \in 1..A |-> [p \in 1..L |->
            x[((a - 1 + (seed \div L)) % A) + 1][((p - 1 + seed) % L) + 1]]]

\* (mutant) one seed for the whole batch
SeedSameForBatch(state, rjs, j) == state + rjs[1]

\* (mutant) the seed follows the position in the batch
SeedByPosition(state, rjs, j) == state + j

\* The seed the generator gets for row j (from 0) of the batch

SeedFor(state, rjs, j) == state + rjs[j + 1]

\* torch.stack(rows).mean(dim=0)
Mean(rows) ==
    LET stacked == Evaluated(rows)
    IN  [a \in 1..Len(stacked[1]) |-> [p \in 1..Len(stacked[1][a]) |->
            RDiv(RSum([k \in 1..Len(stacked) |-> stacked[k][a][p]]),
                 RInt(Len(stacked)))]]

\* attr_avg *= X[z], for one example
Masked(avg, x) ==
    [a \in 1..Len(avg) |-> [p \in 1..Len(avg[a]) |-> RMul(avg[a][p], x[a][p])]]

\* (mutant) the mask is taken from the first example of the batch
MaskExampleFirstOfBatch(zz, Xis) == Xis[1]

\* The example whose one-hot input masks the average: X[z]
MaskExample(zz, Xis) == zz

\* (mutant) a trailing incomplete group is averaged as well
AggregateGreedy(pending, done, zz, S, Xis) ==
    IF pending = <<>> THEN [attr_ |-> pending, attributions |-> done, z |-> zz]
    ELSE [attr_ |-> <<>>,
          attributions |-> Append(done,
              [value |-> Mean([k \in 1..Len(pending) |-> pending[k].value]),
               mask |-> zz,
               parts |-> [k \in 1..Len(pending) |-> pending[k].pair]]),
          z |-> zz + 1]

\* The loop `while len(attr_) >= n_shuffles`: the first n_shuffles partial
\* results are averaged, masked unless `hypothetical`, appended to
\* `attributions` and dropped from `attr_`.  A partial result carries the
\* pair it was computed for; an attribution carries the pairs it averages
\* and the example its mask was taken from.
RECURSIVE Aggregate(_, _, _, _, _)
Aggregate(pending, done, zz, S, Xis) ==
    IF Len(pending) < S
    THEN [attr_ |-> pending, attributions |-> done, z |-> zz]
    ELSE LET group == SubSeq(pending, 1, S)
             attr_avg == Mean([k \in 1..S |-> group[k].value])
             value == IF hypothetical THEN attr_avg
                      ELSE Masked(attr_avg, X[MaskExample(zz, Xis) + 1])
         IN  Aggregate(SubSeq(pending, S + 1, Len(pending)),
                       Append(done, [value |-> value,
                                     mask |-> MaskExample(zz, Xis),
                                     parts |-> [k \in 1..S |-> group[k].pair]]),
                       zz + 1, S, Xis)

\* The bounds of the driver's runs
MaxExamples == 2
MaxShuffles == 3
MaxBatch == 4

\* One-hot examples of shape (2, 2)
DriverRowList ==
    << <<(<<ROne, RZero>>), <<RZero, ROne>>>>,
       <<(<<RZero, ROne>>), <<ROne, RZero>>>>,
       <<(<<ROne, ROne>>), <<RZero, RZero>>>> >>

DriverRows == Range(DriverRowList)

RandomStates == {<<0>>, <<1>>}

\* Rows a caller's tensor of references is filled with: the one-hot rows of
\* the examples' shape, and a row of another shape.
ReferenceRowList ==
    << <<(<<ROne, RZero>>), <<RZero, ROne>>>>,
       <<(<<RZero, ROne>>), <<ROne, RZero>>>>,
       <<(<<ROne, ROne>>), <<RZero, RZero>>>>,
       <<(<<RZero, RZero>>), <<ROne, ROne>>>> >>

ShortRow == <<(<<ROne>>), <<RZero>>>>

\* Tensors a caller passes as references: N rows of S references each,
\* of the examples' row shape or not.
ReferenceTensors ==
    {ReferenceTensor(
        [e \in 1..N |-> [r \in 1..S |->
            IF short THEN ShortRow
            ELSE ReferenceRowList[((2 * (e - 1) + (r - 1)) % Len(ReferenceRowList)) + 1]]]) :
        N \in 1..(MaxExamples + 1), S \in 1..2, short \in BOOLEAN}

\* Tensors X of 1..MaxExamples examples, each example differing from the
\* one before it
DriverXs ==
    {[k \in 1..n |-> DriverRowList[((s + k) % Len(DriverRowList)) + 1]] :
        n \in 1..MaxExamples, s \in 1..Len(DriverRowList)}

DriverStart ==
    /\ loop_i = 0
    /\ Xi = <<>>
    /\ rj = <<>>
    /\ attr_ = <<>>
    /\ z = 0
    /\ attributions = <<>>
    /\ references_ = <<>>
    /\ batch_X = NoTensor
    /\ batch_references = NoTensor
    /\ d_pc = "loop"
    /\ handed = <<>>

\* The model handed to deep_lift_shap, and the engine before the first batch
DriverModelInit(ls, m, kind) ==
    /\ layers = ls
    /\ weight = ScenarioWeight
    /\ ForeignInit(m, kind)
    /\ module_input = [k \in 1..Len(layers) |-> NoTensor]
    /\ module_output = [k \in 1..Len(layers) |-> NoTensor]
    /\ forward_handles = <<>>
    /\ backward_handles = <<>>
    /\ pc = "unused"
    /\ cursor = 0
    /\ inputs = NoTensor
    /\ baselines = NoTensor
    /\ outputs = NoTensor
    /\ gradients = NoTensor
    /\ convergence_deltas = NoTensor
    /\ warned = FALSE
    /\ exc = "none"
    /\ ncalls = 0
    /\ calls_allowed = 0
    /\ caller_args = {}
    /\ next_id = 1
    /\ call_first_id = 1

DriverInit ==
    /\ \/ \* the supported model, every workload within the bounds
          /\ DriverModelInit(LinearReLUModel, 0, "forward")
          /\ X \in DriverXs
          /\ n_shuffles \in 1..MaxShuffles
          /\ batch_size \in 1..MaxBatch
          /\ hypothetical \in BOOLEAN
          /\ random_state \in RandomStates
          /\ return_references = TRUE
          /\ references = Generator
       \/ \* the supported model, references given as a tensor
          /\ DriverModelInit(LinearReLUModel, 0, "forward")
          /\ X \in DriverXs
          /\ n_shuffles = 2
          /\ batch_size \in {1, 3}
          /\ hypothetical = FALSE
          /\ random_state = <<0>>
          /\ return_references = TRUE
          /\ references \in ReferenceTensors
       \/ \* other models, one workload
          /\ \/ \E ls \in MaxPoolModels : DriverModelInit(ls, 0, "forward")
             \/ \E kind \in ForeignKinds : DriverModelInit(LinearReLUModel, 2, kind)
             \/ DriverModelInit(LinearModel, 0, "forward")
          /\ X \in [1..2 -> DriverRows]
          /\ n_shuffles = 2
          /\ batch_size = 3
          /\ hypothetical \in BOOLEAN
          /\ random_state = <<1>>
          /\ return_references = FALSE
          /\ references = Generator
       \/ \* no example at all
          /\ \E ls \in {LinearReLUModel, NestedMaxPoolModel} :
                DriverModelInit(ls, 0, "forward")
          /\ X = <<>>
          /\ n_shuffles = 2
          /\ batch_size = 3
          /\ hypothetical \in BOOLEAN
          /\ random_state = <<0>>
          /\ return_references = FALSE
          /\ references = Generator
       \/ \* no seed: the generator draws its own
          /\ DriverModelInit(LinearReLUModel, 0, "forward")
          /\ X \in [1..1 -> DriverRows]
          /\ n_shuffles = 2
          /\ batch_size \in 1..2
          /\ hypothetical = TRUE
          /\ random_state = None
          /\ return_references = TRUE
          /\ references = Generator
    /\ DriverStart

\* deep_lift_shap is not part of the run.
DriverUnused ==
    /\ X = <<>>
    /\ n_shuffles = 0
    /\ batch_size = 0
    /\ hypothetical = FALSE
    /\ random_state = None
    /\ return_references = FALSE
    /\ references = Generator
    /\ loop_i = 0
    /\ Xi = <<>>
    /\ rj = <<>>
    /\ attr_ = <<>>
    /\ z = 0
    /\ attributions = <<>>
    /\ references_ = <<>>
    /\ batch_X = NoTensor
    /\ batch_references = NoTensor
    /\ d_pc = "unused"
    /\ handed = <<>>

\* The local n_shuffles after `if isinstance(references, torch.Tensor):
\* n_shuffles = references.shape[1]`: the argument, or the second dimension
\* of the tensor of references
NShuffles ==
    IF references.kind = "tensor" THEN Len(references.value[1]) ELSE n_shuffles

\* n = X.shape[0] * n_shuffles
NumPairs == Len(X) * NShuffles

\* (mutant) a batch also ends with the last reference of an example
FlushDueAtExampleEnd ==
    Len(Xi) + 1 = batch_size \/ (loop_i + 1) % NShuffles = 0

\* `if len(Xi) == batch_size or i == (n-1)`, after the two appends
FlushDue == Len(Xi) + 1 = batch_size \/ loop_i = NumPairs - 1

\* One pass of the loop body that only appends to Xi and rj.
Accumulate ==
    /\ d_pc = "loop"
    /\ loop_i < NumPairs
    /\ ~FlushDue
    /\ Xi' = Append(Xi, loop_i \div NShuffles)
    /\ rj' = Append(rj, loop_i % NShuffles)
    /\ loop_i' = loop_i + 1
    /\ UNCHANGED <<X, references, n_shuffles, batch_size, hypothetical,
                   random_state, return_references, attr_, z, attributions,
                   references_, batch_X, batch_references, d_pc, handed>>
    /\ UNCHANGED <<call_vars, proj_vars, model_vars, engine_vars>>

\* The seeds of the batch: random_state + rj[j], or, without a random
\* state, whatever the generator draws.
BatchSeeds(rjs) ==
    IF random_state = None
    THEN [1..Len(rjs) -> 0..1]
    ELSE {[j \in 1..Len(rjs) |-> SeedFor(random_state[1], rjs, j - 1)]}

\* references[Xi, rj] can be taken: every example of the batch has a row in
\* the tensor of references.
InRange(Xis) ==
    references.kind = "tensor" =>
        \A j \in 1..Len(Xis) : Xis[j] + 1 <= Len(references.value)

\* The _references a batch can get, each with the seeds that gave it: the
\* rows references[Xi[j], rj[j]] of a tensor, or what the generator gives
\* for each row of _X.
BatchReferences(Xis, rjs, bX) ==
    IF references.kind = "tensor"
    THEN {[rows |-> [j \in 1..Len(Xis) |->
                        references.value[Xis[j] + 1][rjs[j] + 1]],
           seeds |-> [j \in 1..Len(Xis) |-> None]]}
    ELSE {[rows |-> [j \in 1..Len(Xis) |-> Shuffle(bX[j], seeds[j])],
           seeds |-> seeds] : seeds \in BatchSeeds(rjs)}

\* A pass of the loop body that appends and finds the batch due: _X and
\* _references are built and DeepLiftShap(model, ...).attribute(_X,
\* _references) is called.
FlushBegin ==
    /\ d_pc = "loop"
    /\ loop_i < NumPairs
    /\ FlushDue
    /\ Xi' = Append(Xi, loop_i \div NShuffles)
    /\ rj' = Append(rj, loop_i % NShuffles)
    /\ InRange(Xi')
    /\ batch_X' = [j \in 1..Len(Xi') |-> X[Xi'[j] + 1]]
    /\ \E refs \in BatchReferences(Xi', rj', batch_X') :
          /\ batch_references' = refs.rows
          /\ handed' = handed \o
                [j \in 1..Len(Xi') |->
                    [example |-> Xi'[j], ref |-> rj'[j], seed |-> refs.seeds[j],
                     reference |-> batch_references'[j], batch |-> ncalls + 1]]
    /\ d_pc' = "engine"
    /\ pc' = "init"
    /\ exc' = "none"
    /\ calls_allowed' = ncalls + 1
    /\ caller_args' = {<<batch_X', batch_references'>>}
    /\ UNCHANGED <<X, references, n_shuffles, batch_size, hypothetical,
                   random_state, return_references, loop_i, attr_, z, attributions,
                   references_>>
    /\ UNCHANGED <<forward_handles, backward_handles, cursor, inputs, baselines,
                   outputs, gradients, convergence_deltas, warned, ncalls,
                   next_id, call_first_id>>
    /\ UNCHANGED <<call_vars, proj_vars, model_vars>>

\* A pass of the loop body that finds the batch due and an example of it
\* beyond the first dimension of the tensor of references: the indexing
\* references[Xi, rj] raises IndexError.
FlushIndexRaises ==
    /\ d_pc = "loop"
    /\ loop_i < NumPairs
    /\ FlushDue
    /\ Xi' = Append(Xi, loop_i \div NShuffles)
    /\ rj' = Append(rj, loop_i % NShuffles)
    /\ ~InRange(Xi')
    /\ batch_X' = [j \in 1..Len(Xi') |-> X[Xi'[j] + 1]]
    /\ d_pc' = "raised"
    /\ exc' = "IndexError"
    /\ UNCHANGED <<X, references, n_shuffles, batch_size, hypothetical,
                   random_state, return_references, loop_i, attr_, z, attributions,
                   references_, batch_references, handed>>
    /\ UNCHANGED <<forward_handles, backward_handles, pc, cursor, inputs,
                   baselines, outputs, gradients, convergence_deltas, warned,
                   ncalls, calls_allowed, caller_args, next_id, call_first_id>>
    /\ UNCHANGED <<call_vars, proj_vars, model_vars>>

\* attribute returned: the gradients are projected, the partial results
\* appended to attr_ and every complete group averaged; the references are
\* collected and Xi and rj emptied.
FlushEnd ==
    /\ d_pc = "engine"
    /\ pc = "returned"
    /\ LET attr == hypothetical_attributions(<<gradients>>, <<batch_X>>,
                                            <<batch_references>>)[1]
           extended == attr_ \o [j \in 1..Len(attr) |->
                          [value |-> attr[j], pair |-> <<Xi[j], rj[j]>>]]
           agg == Aggregate(extended, attributions, z, NShuffles, Xi)
       IN  /\ attr_' = agg.attr_
           /\ attributions' = agg.attributions
           /\ z' = agg.z
    /\ references_' = IF return_references
                      THEN references_ \o batch_references
                      ELSE references_
    /\ Xi' = <<>>
    /\ rj' = <<>>
    /\ loop_i' = loop_i + 1
    /\ d_pc' = "loop"
    /\ pc' = "unused"
    /\ UNCHANGED <<X, references, n_shuffles, batch_size, hypothetical,
                   random_state, return_references, batch_X, batch_references,
                   handed>>
    /\ UNCHANGED <<forward_handles, backward_handles, cursor, inputs, baselines,
                   outputs, gradients, convergence_deltas, warned, exc, ncalls,
                   calls_allowed, caller_args, next_id, call_first_id>>
    /\ UNCHANGED <<call_vars, proj_vars, model_vars>>

\* The construction of the engine or its attribute call raised: the
\* exception leaves deep_lift_shap.
FlushRaises ==
    /\ d_pc = "engine"
    /\ pc \in {"construct_failed", "raised"}
    /\ d_pc' = "raised"
    /\ UNCHANGED <<X, references, n_shuffles, batch_size, hypothetical,
                   random_state, return_references, loop_i, Xi, rj, attr_, z,
                   attributions, references_, batch_X, batch_references, handed>>
    /\ UNCHANGED <<call_vars, proj_vars, model_vars, engine_vars>>

\* torch.cat(list) along the first axis: the rows of every tensor of the
\* list, one after the other
RECURSIVE CatAll(_)
CatAll(list) == IF list = <<>> THEN <<>> ELSE list[1] \o CatAll(Tail(list))

\* (mutant) the reshape fills the reference axis first
ReshapeReferenceMajor(T, n, s, a, l) ==
    LET flat == CatAll(T)
    IN  [e \in 1..n |-> [r \in 1..s |-> [c \in 1..a |-> [p \in 1..l |->
            flat[((((r - 1) * n + (e - 1)) * a + (c - 1)) * l) + p]]]]]

\* T.reshape(n, s, a, l) of a two-dimensional T: the elements in row-major
\* order, regrouped
Reshape(T, n, s, a, l) ==
    LET flat == CatAll(T)
    IN  [e \in 1..n |-> [r \in 1..s |-> [c \in 1..a |-> [p \in 1..l |->
            flat[((((e - 1) * s + (r - 1)) * a + (c - 1)) * l) + p]]]]]

\* The loop has ended: attributions = torch.stack(attributions); with
\* return_references, references_ = torch.cat(references_).reshape(
\* X.shape[0], n_shuffles, *X.shape[1:]); the function returns.  The list
\* holds X.shape[0] * n_shuffles rows of the shape of X's rows, so the
\* reshape has the number of elements it needs.
Finish ==
    /\ d_pc = "loop"
    /\ loop_i = NumPairs
    /\ attributions # <<>>
    /\ references_' = IF return_references
                      THEN Reshape(CatAll(references_), Len(X), NShuffles,
                                   Len(X[1]), Len(X[1][1]))
                      ELSE references_
    /\ d_pc' = "done"
    /\ UNCHANGED <<X, references, n_shuffles, batch_size, hypothetical,
                   random_state, return_references, loop_i, Xi, rj, attr_, z,
                   attributions, batch_X, batch_references, handed>>
    /\ UNCHANGED <<call_vars, proj_vars, model_vars, engine_vars>>

\* The loop has ended with nothing to stack: torch.stack raises on the
\* empty list.
FinishRaises ==
    /\ d_pc = "loop"
    /\ loop_i = NumPairs
    /\ attributions = <<>>
    /\ d_pc' = "raised"
    /\ exc' = "StackError"
    /\ UNCHANGED <<X, references, n_shuffles, batch_size, hypothetical,
                   random_state, return_references, loop_i, Xi, rj, attr_, z,
                   attributions, references_, batch_X, batch_references, handed>>
    /\ UNCHANGED <<forward_handles, backward_handles, pc, cursor, inputs,
                   baselines, outputs, gradients, convergence_deltas, warned,
                   ncalls, calls_allowed, caller_args, next_id, call_first_id>>
    /\ UNCHANGED <<call_vars, proj_vars, model_vars>>

DriverNext ==
    \/ Accumulate
    \/ FlushBegin
    \/ FlushIndexRaises
    \/ FlushEnd
    \/ FlushRaises
    \/ Finish
    \/ FinishRaises
    \/ ConstructRaises
    \/ Construct
    \/ AttributeAssertFails
    \/ AttributeEnter
    \/ RegisterSkip
    \/ RegisterHooks
    \/ RegisterHooksRaises
    \/ ForwardPass
    \/ ForwardRaises
    \/ BackwardPass
    \/ BackwardRaises
    \/ Validate
    \/ ValidateRaises
    \/ Finally

(***************************************************************************)
(* Several callers on one model                                            *)
(*                                                                         *)
(* Each caller has an engine of its own and makes one attribute call on    *)
(* the shared model. A step is one phase of a call: model.apply, the       *)
(* forward pass, the backward pass, the validation, the finally clause.    *)
(* Callers switch between phases only; every behaviour here is one the     *)
(* interpreter can schedule.                                               *)
(***************************************************************************)
Callers == {1, 2}

\* The (inputs, baselines) a caller passes: one row each, of equal shape
CallerArgs ==
    {<<(<<OneHotRow(c)>>), <<OneHotRow(d)>>>> : c \in 1..3, d \in 1..3}

\* A caller's engine after DeepLiftShap(model), before attribute
IdleCall ==
    [pc |-> "idle", forward_handles |-> <<>>, backward_handles |-> <<>>,
     inputs |-> NoTensor, baselines |-> NoTensor, outputs |-> NoTensor,
     gradients |-> NoTensor, convergence_deltas |-> NoTensor, warned |-> FALSE,
     consumed |-> <<>>]

\* No caller is part of the run.
CallsUnused ==
    /\ calls = <<>>
    /\ captured_by = <<>>

CallersInit ==
    /\ layers \in {LinearReLUModel, ReLULinearReLUModel}
    /\ weight = ScenarioWeight
    /\ ForeignInit(0, "forward")
    /\ module_input = [k \in 1..Len(layers) |-> NoTensor]
    /\ module_output = [k \in 1..Len(layers) |-> NoTensor]
    /\ forward_handles = <<>>
    /\ backward_handles = <<>>
    /\ pc = "unused"
    /\ cursor = 0
    /\ inputs = NoTensor
    /\ baselines = NoTensor
    /\ outputs = NoTensor
    /\ gradients = NoTensor
    /\ convergence_deltas = NoTensor
    /\ warned = FALSE
    /\ exc = "none"
    /\ ncalls = 0
    /\ calls_allowed = 0
    /\ caller_args = {}
    /\ next_id = 1
    /\ call_first_id = 1
    /\ calls = [t \in Callers |-> IdleCall]
    /\ captured_by = [k \in 1..Len(layers) |-> 0]

\* What a phase of a caller's call leaves alone
outside_calls == <<proj_vars, driver_vars, engine_vars>>

\* attribute(inputs, baselines) of caller t: the assertion holds and the
\* try statement is entered.
CallEnter(t) ==
    /\ calls[t].pc = "idle"
    /\ \E args \in CallerArgs :
          calls' = [calls EXCEPT ![t] =
                       [@ EXCEPT !.pc = "register",
                                 !.inputs = args[1],
                                 !.baselines = args[2]]]
    /\ UNCHANGED <<captured_by, model_vars, outside_calls>>

\* self.model.apply(self._register_hooks) of caller t: every module that
\* _can_register_hook accepts gets the three hooks, which carry the
\* caller's number as id, and their handles go to the caller's engine.
CallRegister(t) ==
    /\ calls[t].pc = "register"
    /\ LET hookable == {m \in 1..Len(layers) : _can_register_hook(m)}
           Handles(kinds) ==
               LET RECURSIVE Of(_)
                   Of(m) == IF m > Len(layers) THEN <<>>
                            ELSE (IF m \in hookable
                                  THEN [j \in 1..Len(kinds) |-> Handle(m, kinds[j], t)]
                                  ELSE <<>>) \o Of(m + 1)
               IN  Of(1)
           Add(dict) == [m \in 1..Len(layers) |->
                            IF m \in hookable THEN dict[m] \cup {t} ELSE dict[m]]
       IN  /\ forward_hooks' = Add(forward_hooks)
           /\ forward_pre_hooks' = Add(forward_pre_hooks)
           /\ backward_hooks' = Add(backward_hooks)
           /\ is_full_backward_hook' =
                 [m \in 1..Len(layers) |->
                     IF m \in hookable THEN "True" ELSE is_full_backward_hook[m]]
           /\ calls' = [calls EXCEPT ![t] =
                 [@ EXCEPT !.pc = "forward",
                           !.forward_handles = @ \o Handles(<<"forward", "pre">>),
                           !.backward_handles = @ \o Handles(<<"backward">>)]]
    /\ UNCHANGED <<layers, weight, module_input, module_output, captured_by,
                   outside_calls>>

\* outputs = self.model(inputs_) of caller t: the hooks on the modules
\* fire, whoever registered them.
CallForward(t) ==
    /\ calls[t].pc = "forward"
    /\ LET trace == BatchTrace(layers, weight,
                               Cat(calls[t].inputs, calls[t].baselines))
       IN  /\ module_input' = Captured(module_input, forward_pre_hooks,
                                       Len(layers), trace, "input")
           /\ module_output' = Captured(module_output, forward_hooks,
                                        Len(layers), trace, "output")
           /\ calls' = [calls EXCEPT ![t] =
                 [@ EXCEPT !.pc = "backward",
                           !.outputs = [i \in 1..Len(trace) |->
                                           trace[i][Len(layers)].output]]]
    /\ captured_by' = [m \in 1..Len(layers) |->
                          IF EngineIds(forward_pre_hooks[m] \cup forward_hooks[m]) # {}
                             /\ layers[m].type # "Sequential"
                          THEN t ELSE captured_by[m]]
    /\ UNCHANGED <<layers, weight, forward_hooks, forward_pre_hooks,
                   backward_hooks, is_full_backward_hook, outside_calls>>

\* gradients = torch.autograd.grad(outputs_, inputs)[0] of caller t: the
\* backward hooks on the modules fire, whoever registered them, and read
\* module.input and module.output as they are now.
CallBackward(t) ==
    /\ calls[t].pc = "backward"
    /\ calls' = [calls EXCEPT ![t] =
          [@ EXCEPT !.pc = "validate",
                    !.gradients = AutogradGrad(layers, weight, calls[t].inputs,
                                      calls[t].baselines, backward_hooks,
                                      module_input, module_output),
                    !.consumed = [m \in 1..Len(layers) |->
                                     IF EngineIds(backward_hooks[m]) # {}
                                     THEN captured_by[m] ELSE 0]]]
    /\ UNCHANGED <<captured_by, model_vars, outside_calls>>

\* The convergence deltas of caller t and the warning
CallValidate(t) ==
    /\ calls[t].pc = "validate"
    /\ LET deltas == ConvergenceDeltas(calls[t].inputs, calls[t].baselines,
                                       calls[t].outputs, calls[t].gradients)
       IN  calls' = [calls EXCEPT ![t] =
               [@ EXCEPT !.pc = "finally",
                         !.convergence_deltas = deltas,
                         !.warned = TooHigh(deltas)]]
    /\ UNCHANGED <<captured_by, model_vars, outside_calls>>

\* The finally clause of caller t: the handles of its engine are removed;
\* attribute returns.
CallFinally(t) ==
    /\ calls[t].pc = "finally"
    /\ forward_hooks' = RemoveFrom(forward_hooks, "forward",
                                   Range(calls[t].forward_handles))
    /\ forward_pre_hooks' = RemoveFrom(forward_pre_hooks, "pre",
                                       Range(calls[t].forward_handles))
    /\ backward_hooks' = RemoveFrom(backward_hooks, "backward",
                                    Range(calls[t].backward_handles))
    /\ calls' = [calls EXCEPT ![t] = [@ EXCEPT !.pc = "returned"]]
    /\ UNCHANGED <<layers, weight, is_full_backward_hook, module_input,
                   module_output, captured_by, outside_calls>>

CallersNext ==
    \E t \in Callers :
        \/ CallEnter(t)
        \/ CallRegister(t)
        \/ CallForward(t)
        \/ CallBackward(t)
        \/ CallValidate(t)
        \/ CallFinally(t)

(***************************************************************************)
(* Specifications                                                          *)
(***************************************************************************)
Init == EngineInit /\ ProjUnused /\ DriverUnused /\ CallsUnused
Next == EngineNext
Spec == Init /\ [][Next]_vars

InitProjector == ProjInit /\ EngineUnused /\ DriverUnused /\ CallsUnused
SpecProjector == InitProjector /\ [][ProjNext]_vars

InitDriver == DriverInit /\ ProjUnused /\ CallsUnused
SpecDriver == InitDriver /\ [][DriverNext]_vars

InitCallers == CallersInit /\ ProjUnused /\ DriverUnused
SpecCallers == InitCallers /\ [][CallersNext]_vars

(***************************************************************************)
(* Claims                                                                  *)
(***************************************************************************)

\* The hooks of the engine that the current attribute call registered and
\* that are still on module m
HooksOfThisCall(m) ==
    {id \in forward_hooks[m] \cup forward_pre_hooks[m] \cup backward_hooks[m] :
        id # ForeignId /\ id >= call_first_id}

\* C1 (conservation for a linear model): for a model that is a single dense
\* layer, whenever attribute returns, for every example the sum over all
\* features of (input - baseline) * gradient equals output(input) -
\* output(baseline), so the convergence delta is 0 and no warning is
\* emitted; for the weights [2,-1,0,0], the input [1,0,0,0] and the baseline
\* [0,1,0,0] the gradient returned is [2,-1,0,0].
C1_LinearConservation ==
    (pc = "returned" /\ layers = LinearModel) =>
        /\ \A i \in 1..Len(inputs) :
              RSum(Flat(TMul(TSub(inputs, baselines), gradients)[i]))
                 = RSub(Dot(weight, Flat(inputs[i])), Dot(weight, Flat(baselines[i])))
        /\ \A i \in 1..Len(inputs) : convergence_deltas[i] = RZero
        /\ ~warned
        /\ (/\ weight = ScenarioWeight
            /\ inputs = <<OneHotRow(1)>>
            /\ baselines = <<OneHotRow(2)>>)
           => gradients = <<(<<(<<RInt(2)>>), <<RInt(-1)>>, <<RInt(0)>>, <<RInt(0)>>>>)>>

\* The scenario: a dense layer with the weights [2,-1,0,0] has returned the
\* gradient for the input [1,0,0,0] and the baseline [0,1,0,0], whose
\* outputs differ by 3.
C1_Witness ==
    /\ pc = "returned"
    /\ layers = LinearModel
    /\ weight = ScenarioWeight
    /\ inputs = <<OneHotRow(1)>>
    /\ baselines = <<OneHotRow(2)>>
    /\ RSub(outputs[1][1], outputs[2][1]) = RInt(3)
    /\ gradients # NoTensor

\* C2 (hook cleanup on every exit path): when control leaves an attribute
\* call whose hook registration completed -- the call returns, with or
\* without the convergence warning, or raises in the forward pass, the
\* backward pass or the validation -- no forward-pre, forward or backward
\* hook that this call registered is left on any module.
C2_HooksRemovedOnExit ==
    (pc \in {"returned", "raised"} /\ exc \notin {"RuntimeError", "AssertionError"}) =>
        \A m \in 1..Len(layers) : HooksOfThisCall(m) = {}

\* A call that hooked two modules raised in the backward pass and has left.
C2_Witness ==
    /\ pc = "raised"
    /\ exc = "BackwardError"
    /\ Len(backward_handles) = 2
    /\ Len(forward_handles) = 4
    /\ \A m \in 1..Len(layers) : module_input[m] # NoTensor <=> layers[m].type = "ReLU"

\* C3 (layer eligibility, as claimed): the engine's hooks are on a module
\* only if the module is not an instance of a type of ignore_layers; a
\* module of a type of ignore_layers carries no hook of the engine.
C3_HooksOnlyOutsideIgnoreLayers ==
    \A m \in 1..Len(layers) :
        EngineIds(forward_hooks[m] \cup forward_pre_hooks[m] \cup backward_hooks[m]) # {}
            => layers[m].type \notin ignore_layers

\* C9 (exception safety of the registration, as claimed): when a hook
\* registration fails and the exception leaves attribute, no hook that this
\* call registered is left on any module.
C9_NoHookLeftAfterFailedRegistration ==
    (pc = "raised" /\ exc = "RuntimeError") =>
        \A m \in 1..Len(layers) : HooksOfThisCall(m) = {}

PairGradient(ls, W, hooked, x, ref) ==
    LET trace == BatchTrace(ls, W, <<x, ref>>)
        hooks == [m \in 1..Len(ls) |-> IF m \in hooked THEN {1} ELSE {}]
        cap_in == [m \in 1..Len(ls) |->
                     <<trace[1][m].input, trace[2][m].input>>]
        cap_out == [m \in 1..Len(ls) |->
                     <<trace[1][m].output, trace[2][m].output>>]
    IN  AutogradGrad(ls, W, <<x>>, <<ref>>, hooks, cap_in, cap_out)

PairAttribution(ls, W, hooked, x, ref) ==
    hypothetical_attributions(<<PairGradient(ls, W, hooked, x, ref)>>,
                              <<(<<x>>)>>, <<(<<ref>>)>>)[1][1]

\* Every one-hot row of the shape of the driver's examples
OneHotRows == {T[1] : T \in OneHotTensors(<<1, 2, 2>>)}

\* PairAttribution for every model the driver returns on, every set of
\* hooked modules among those the engine may hook, every example and every
\* reference, computed once.
PairAttributions ==
    Evaluated([ls \in {LinearModel, LinearReLUModel} |->
        [hooked \in SUBSET {m \in 1..Len(ls) : ls[m].type \in ignore_layers} |->
            [x \in DriverRows |-> [ref \in OneHotRows |->
                PairAttribution(ls, ScenarioWeight, hooked, x, ref)]]]])

\* The modules the engine hooks on the model as it stands
Hooked == {m \in 1..Len(layers) : _can_register_hook(m)}

\* The hypothetical attribution of example e (from 0) when every pair is
\* worked on its own: the mean over r of the pair (e, r) with the
\* reference of seed random_state + r.
UnbatchedHypothetical(e) ==
    Mean([r \in 1..NShuffles |->
            PairAttributions[layers][Hooked][X[e + 1]]
                            [Shuffle(X[e + 1], random_state[1] + r - 1)]])

Seeded == references = Generator /\ random_state # None

AllPairs == {<<e, r>> : e \in 0..(Len(X) - 1), r \in 0..(NShuffles - 1)}

\* C4: with an integer random_state, whatever batch_size is, the run hands
\* the engine exactly the triples (example, reference index, seed) =
\* (e, r, random_state + r), each once, and returns for every example the
\* attribution that working every pair on its own gives.
C4_BatchSizeInvariance ==
    (d_pc = "done" /\ Seeded) =>
        /\ Len(handed) = Len(X) * NShuffles
        /\ {<<h.example, h.ref, h.seed>> : h \in Range(handed)}
              = {<<p[1], p[2], random_state[1] + p[2]>> : p \in AllPairs}
        /\ Len(attributions) = Len(X)
        /\ \A e \in 0..(Len(X) - 1) :
              attributions[e + 1].value =
                  IF hypothetical THEN UnbatchedHypothetical(e)
                  ELSE Masked(UnbatchedHypothetical(e), X[e + 1])

\* A run over two examples and three references in batches of four that
\* has returned: the first batch spans both examples.
C4_Witness ==
    /\ d_pc = "done"
    /\ Seeded
    /\ Len(X) = 2
    /\ X[1] # X[2]
    /\ n_shuffles = 3
    /\ batch_size = 4
    /\ ncalls = 2

\* C5: a run that returns gives exactly len(X) attributions, the k-th the
\* mean of the partial results of the pairs (k, 0), ..., (k, n_shuffles-1)
\* in this order and of no other, and leaves no partial result in attr_;
\* until then attr_ holds fewer than n_shuffles partial results between
\* two passes of the loop.
C5_PerExampleAggregation ==
    /\ d_pc = "done" =>
          /\ Len(attributions) = Len(X)
          /\ attr_ = <<>>
          /\ z = Len(X)
          /\ \A k \in 1..Len(X) :
                attributions[k].parts = [r \in 1..NShuffles |-> <<k - 1, r - 1>>]
    /\ d_pc = "loop" => Len(attr_) < NShuffles
    /\ \A k \in 1..Len(attributions) :
          /\ Len(attributions[k].parts) = NShuffles
          /\ \A r \in 1..NShuffles : attributions[k].parts[r] = <<k - 1, r - 1>>

\* A run that has returned whose batch size neither divides n_shuffles nor
\* is divided by it.
C5_Witness ==
    /\ d_pc = "done"
    /\ Len(X) = 2
    /\ n_shuffles = 3
    /\ batch_size = 2
    /\ Len(attributions) = 2

\* C6: with a generator and an integer random_state, every pair handed to
\* the engine got the reference the generator gives for its example under
\* the seed random_state + r, r the pair's reference index, wherever the
\* pair stands in its batch; the collected references are these, in the
\* order of the pairs.
C6_SeedRule ==
    Seeded =>
        /\ \A k \in 1..Len(handed) :
              /\ handed[k].seed = random_state[1] + handed[k].ref
              /\ handed[k].reference =
                    Shuffle(X[handed[k].example + 1],
                            random_state[1] + handed[k].ref)
              /\ handed[k].example = (k - 1) \div NShuffles
              /\ handed[k].ref = (k - 1) % NShuffles
        /\ (d_pc = "done" /\ return_references) =>
              references_ = [e \in 1..Len(X) |-> [r \in 1..NShuffles |->
                  Shuffle(X[e], random_state[1] + (r - 1))]]

\* A batch the engine has returned from whose third row is a pair of a
\* second example with reference index 0: its seed is random_state, and the
\* seed random_state + 2 of its position gives another reference.
C6_Witness ==
    /\ Seeded
    /\ d_pc = "engine"
    /\ pc = "returned"
    /\ Len(rj) >= 3
    /\ rj[3] = 0
    /\ Xi[3] # Xi[1]
    /\ batch_references[3] = Shuffle(batch_X[3], random_state[1])
    /\ batch_references[3] # Shuffle(batch_X[3], random_state[1] + 2)

\* C7: the attribution of example e returned with hypothetical=False is
\* the one returned with hypothetical=True multiplied elementwise by X[e];
\* the example the mask is taken from is the one whose partial results are
\* averaged.
C7_ObservedIsMaskedHypothetical ==
    /\ \A k \in 1..Len(attributions) :
          /\ attributions[k].mask = k - 1
          /\ attributions[k].mask = attributions[k].parts[1][1]
    /\ (d_pc = "done" /\ Seeded) =>
          \A e \in 0..(Len(X) - 1) :
              /\ hypothetical =>
                    attributions[e + 1].value = UnbatchedHypothetical(e)
              /\ ~hypothetical =>
                    attributions[e + 1].value =
                        Masked(UnbatchedHypothetical(e), X[e + 1])

\* A run with hypothetical=False that has returned, over two different
\* examples of one reference each in one batch, with an attribution the
\* mask changes.
C7_Witness ==
    /\ d_pc = "done"
    /\ Seeded
    /\ ~hypothetical
    /\ Len(X) = 2
    /\ X[1] # X[2]
    /\ n_shuffles = 1
    /\ batch_size = 2
    /\ \E e \in 0..1 : attributions[e + 1].value # UnbatchedHypothetical(e)

\* No engine was ever built on the model and nothing of the engine is on it.
NothingOfTheEngine ==
    /\ pc \in {"unused", "init", "construct_failed"}
    /\ ncalls = 0
    /\ next_id = 1
    /\ forward_handles = <<>>
    /\ backward_handles = <<>>
    /\ \A m \in 1..Len(layers) :
          /\ EngineIds(forward_hooks[m]) = {}
          /\ EngineIds(forward_pre_hooks[m]) = {}
          /\ EngineIds(backward_hooks[m]) = {}
          /\ module_input[m] = NoTensor
          /\ module_output[m] = NoTensor
    /\ outputs = NoTensor
    /\ gradients = NoTensor

\* The model has a max-pooling module, at whatever depth.
MaxPoolSomewhere == \E m \in 1..Len(layers) : layers[m].type = "MaxPool"

C12_WarningIsNotFatal ==
    /\ [][(pc = "validate" \/ pc = "finally") => (gradients' = gradients)]_vars
    /\ [][(pc = "validate" /\ exc' = "none") =>
            (pc' = "finally" /\
             warned' = (\E i \in 1..Len(convergence_deltas') :
                           RLess(warning_threshold, convergence_deltas'[i])))]_vars
    /\ [][(pc = "finally" /\ exc = "none") => (pc' = "returned")]_vars
    /\ [](pc = "returned" =>
            /\ warned = (\E i \in 1..Len(convergence_deltas) :
                            RLess(warning_threshold, convergence_deltas[i]))
            /\ Len(gradients) = Len(inputs)
            /\ convergence_deltas =
                  ConvergenceDeltas(inputs, baselines, outputs, gradients)
            /\ \A m \in 1..Len(layers) : HooksOfThisCall(m) = {})

\* A call on two rows has returned with the warning: the delta of one row
\* exceeds the threshold, the delta of the other is zero.
C12_Witness ==
    /\ pc = "returned"
    /\ warned
    /\ Len(inputs) = 2
    /\ RLess(warning_threshold, convergence_deltas[1])
       \/ RLess(warning_threshold, convergence_deltas[2])
    /\ convergence_deltas[1] = RZero \/ convergence_deltas[2] = RZero
    /\ Len(gradients) = 2

(***************************************************************************)
(* deep_lift_shap: references given as a tensor                            *)
(***************************************************************************)
\* The shape the docstring asks of a tensor of references:
\* (len(X), n_shuffles, *X.shape[1:]), n_shuffles being the argument.
ReferencesShapeMatches ==
    /\ Len(references.value) = Len(X)
    /\ \A e \in 1..Len(references.value) :
          /\ Len(references.value[e]) = n_shuffles
          /\ \A r \in 1..Len(references.value[e]) :
                /\ Len(references.value[e][r]) = Len(X[1])
                /\ \A a \in 1..Len(X[1]) :
                      Len(references.value[e][r][a]) = Len(X[1][a])

\* C13: deep_lift_shap called with a tensor of references whose shape is
\* not (len(X), n_shuffles, *X.shape[1:]) fails instead of returning
\* attributions: whenever it has returned on a tensor of references, the
\* tensor has that shape.
C13_BadReferencesShapeFails ==
    (d_pc = "done" /\ references.kind = "tensor") => ReferencesShapeMatches

\* deep_lift_shap has returned one attribution per example on a tensor of
\* references with one row more than there are examples.
C13_ReturnedOnLargerFirstDimension ==
    /\ d_pc = "done"
    /\ references.kind = "tensor"
    /\ Len(references.value) = Len(X) + 1
    /\ Len(attributions) = Len(X)

\* deep_lift_shap has returned on a tensor of references whose second
\* dimension is not the argument n_shuffles.
C13_ReturnedOnOtherSecondDimension ==
    /\ d_pc = "done"
    /\ references.kind = "tensor"
    /\ Len(references.value) = Len(X)
    /\ Len(references.value[1]) = 1
    /\ n_shuffles = 2
    /\ Len(attributions) = Len(X)

(***************************************************************************)
(* deep_lift_shap: batches of (example, reference) pairs                   *)
(***************************************************************************)
\* ceil(n / b)
CeilDiv(n, b) == (n + b - 1) \div b

\* The engine has been entered for the batch handed last.
EngineEntered ==
    /\ handed # <<>>
    /\ ncalls = handed[Len(handed)].batch

\* C14: the pairs are handed to the engine in example-major order (pair
\* number k is example k div n_shuffles with reference k mod n_shuffles),
\* each once, batch_size pairs per invocation and the remainder in the last
\* one: every invocation gets between 1 and batch_size pairs, its inputs
\* and baselines are the rows of these pairs, and a run that returns has
\* handed every pair in ceil(n / batch_size) invocations.
C14_BatchingByPairs ==
    /\ \A k \in 1..Len(handed) :
          /\ handed[k].example = (k - 1) \div NShuffles
          /\ handed[k].ref = (k - 1) % NShuffles
          /\ handed[k].batch = ((k - 1) \div batch_size) + 1
    /\ Len(handed) <= NumPairs
    /\ d_pc = "engine" =>
          /\ Len(Xi) \in 1..batch_size
          /\ Len(rj) = Len(Xi)
          /\ Len(Xi) = batch_size \/ Len(handed) = NumPairs
          /\ Len(batch_X) = Len(Xi)
          /\ Len(batch_references) = Len(Xi)
          /\ \A j \in 1..Len(Xi) :
                LET h == handed[Len(handed) - Len(Xi) + j]
                IN  /\ h.example = Xi[j]
                    /\ h.ref = rj[j]
                    /\ h.reference = batch_references[j]
                    /\ batch_X[j] = X[Xi[j] + 1]
          /\ EngineEntered => (inputs = batch_X /\ baselines = batch_references)
    /\ d_pc = "loop" => Len(handed) = loop_i - Len(Xi)
    /\ d_pc = "done" =>
          /\ Len(handed) = NumPairs
          /\ ncalls = CeilDiv(NumPairs, batch_size)

\* deep_lift_shap has returned on 2 examples with 3 references each and
\* batch_size 4: two invocations, the references of the second example
\* split between them, the last invocation with 2 pairs.
C14_Witness ==
    /\ d_pc = "done"
    /\ Len(X) = 2
    /\ NShuffles = 3
    /\ batch_size = 4
    /\ ncalls = 2
    /\ Len(handed) = 6
    /\ handed[4].example = 1 /\ handed[4].batch = 1
    /\ handed[5].example = 1 /\ handed[5].batch = 2
    /\ Len(inputs) = 2

(***************************************************************************)
(* deep_lift_shap: the references returned                                 *)
(***************************************************************************)
\* The reference the engine got as baseline for example e (from 0) with
\* reference index r (from 0)
HandedReference(e, r) ==
    (CHOOSE h \in Range(handed) : h.example = e /\ h.ref = r).reference

\* C15: with return_references, deep_lift_shap returns a tensor of
\* references of shape (len(X), n_shuffles, A, L) whose entry [e][r] is the
\* reference the engine got as baseline for example e with reference index
\* r, and every such pair was handed exactly once.
C15_ReturnedReferences ==
    (d_pc = "done" /\ return_references) =>
        /\ Len(references_) = Len(X)
        /\ \A e \in 1..Len(X) :
              /\ Len(references_[e]) = NShuffles
              /\ \A r \in 1..NShuffles :
                    /\ Cardinality({k \in 1..Len(handed) :
                           handed[k].example = e - 1 /\ handed[k].ref = r - 1}) = 1
                    /\ references_[e][r] = HandedReference(e - 1, r - 1)
                    /\ Len(references_[e][r]) = Len(X[e])
                    /\ \A c \in 1..Len(X[e]) :
                          Len(references_[e][r][c]) = Len(X[e][c])

\* deep_lift_shap has returned references for 2 examples with 3 shuffles
\* each, gathered in batches of 2: the references of one example differ
\* from each other and from those of the other example.
C15_Witness ==
    /\ d_pc = "done"
    /\ return_references
    /\ Len(X) = 2
    /\ NShuffles = 3
    /\ batch_size = 2
    /\ ncalls = 3
    /\ references_[1][1] # references_[1][2]
    /\ references_[1][1] # references_[2][1]
    /\ references_[2][2] = HandedReference(1, 1)

(***************************************************************************)
(* DeepLiftShap.attribute: the order of the phases                         *)
(***************************************************************************)
\* Module m carries a forward, a forward-pre and a backward hook of the
\* current call.
HookedByThisCall(m) ==
    /\ \E id \in forward_hooks[m] : id # ForeignId /\ id >= call_first_id
    /\ \E id \in forward_pre_hooks[m] : id # ForeignId /\ id >= call_first_id
    /\ \E id \in backward_hooks[m] : id # ForeignId /\ id >= call_first_id

\* Every module of a type the engine hooks, with no backward hook of
\* another consumer, carries the hooks of the current call.
AllEligibleHooked ==
    \A m \in 1..Len(layers) :
        (layers[m].type \in ignore_layers /\ ~(ForeignId \in backward_hooks[m]))
            => HookedByThisCall(m)

\* C16: within one call of attribute the phases come in the order hooks
\* registered, forward pass, backward pass, validation, hooks removed,
\* return: the outputs appear only in the forward step, with every eligible
\* module hooked and no gradient yet; the gradients appear only in the
\* backward step, after the outputs, with the hooks still in place; the
\* convergence deltas appear only in the validation step, after the
\* gradients; hooks of the call leave the modules only in the finally step,
\* all together; the call returns only from the finally step with the three
\* results computed; the captures change only in the forward step; and once
\* the call has returned no hook of it is on any module.
C16_PhaseOrder ==
    /\ [][(outputs = NoTensor /\ outputs' # NoTensor) =>
            /\ pc = "forward"
            /\ AllEligibleHooked
            /\ gradients' = NoTensor
            /\ convergence_deltas' = NoTensor]_vars
    /\ [][(gradients = NoTensor /\ gradients' # NoTensor) =>
            /\ pc = "backward"
            /\ outputs # NoTensor
            /\ AllEligibleHooked
            /\ convergence_deltas' = NoTensor]_vars
    /\ [][(convergence_deltas = NoTensor /\ convergence_deltas' # NoTensor) =>
            /\ pc = "validate"
            /\ gradients # NoTensor
            /\ AllEligibleHooked]_vars
    /\ [][(call_first_id' = call_first_id
            /\ \E m \in 1..Len(layers) :
                  HooksOfThisCall(m) # {} /\ ~(HooksOfThisCall(m) \subseteq HooksOfThisCall(m)')) =>
            /\ pc = "finally"
            /\ exc = "none" => \A m \in 1..Len(layers) : HooksOfThisCall(m)' = {}]_vars
    /\ [][(pc # "returned" /\ pc' = "returned") =>
            /\ pc = "finally"
            /\ outputs # NoTensor
            /\ gradients # NoTensor
            /\ convergence_deltas # NoTensor]_vars
    /\ [][(module_input' # module_input \/ module_output' # module_output) =>
            (pc = "forward" /\ AllEligibleHooked)]_vars
    /\ [](pc = "returned" =>
            /\ \A m \in 1..Len(layers) : HooksOfThisCall(m) = {}
            /\ outputs # NoTensor
            /\ gradients # NoTensor
            /\ convergence_deltas # NoTensor)

\* A call on the model with two ReLU modules has returned: both were
\* hooked (four forward-side handles, two backward handles), both captured
\* their input, the three results are there and no engine hook is left.
C16_Witness ==
    /\ pc = "returned"
    /\ layers = ReLULinearReLUModel
    /\ ncalls = 1
    /\ Len(forward_handles) = 4
    /\ Len(backward_handles) = 2
    /\ module_input[1] # NoTensor
    /\ module_input[3] # NoTensor
    /\ gradients # NoTensor
    /\ convergence_deltas # NoTensor
    /\ \A m \in 1..Len(layers) :
          EngineIds(forward_hooks[m] \cup forward_pre_hooks[m] \cup backward_hooks[m]) = {}

(***************************************************************************)
(* The captures module.input and module.output                             *)
(***************************************************************************)
\* C17: the snapshots the forward-pre and forward hooks store on a module
\* are discarded once the backward hook has used them: after attribute has
\* returned or raised, no module has a captured input or output.
C17_NoCaptureLeft ==
    (pc = "returned" \/ pc = "raised") =>
        \A m \in 1..Len(layers) :
            module_input[m] = NoTensor /\ module_output[m] = NoTensor

\* attribute has returned with no hook of the engine left, and the ReLU
\* module of the Linear-ReLU model still has the input and the output its
\* hooks stored during the forward pass.
C17_CaptureLeftAfterReturn ==
    /\ pc = "returned"
    /\ layers = LinearReLUModel
    /\ \A m \in 1..Len(layers) :
          EngineIds(forward_hooks[m] \cup forward_pre_hooks[m] \cup backward_hooks[m]) = {}
    /\ module_input[2] # NoTensor
    /\ module_output[2] # NoTensor
    /\ Len(module_input[2]) = Len(inputs) + Len(baselines)

(***************************************************************************)
(* DeepLiftShap._backward_hook: the rescale rule                           *)
(***************************************************************************)
\* The rule at module k, from the tensors stored on it: delta_in and
\* delta_out are the first half minus the second half of module.input and
\* module.output, used for both halves of the batch; where |delta_in| < eps
\* the result is `unscaled`, elsewhere `scaled` times delta_out / delta_in.
RescaleRule(k, unscaled, scaled) ==
    LET n == Len(module_input[k]) \div 2
        half(i) == ((i - 1) % n) + 1
        d_in(i, f) == RSub(module_input[k][half(i)][f], module_input[k][half(i) + n][f])
        d_out(i, f) == RSub(module_output[k][half(i)][f], module_output[k][half(i) + n][f])
    IN  [i \in 1..Len(unscaled) |-> [f \in 1..Len(unscaled[i]) |->
            IF ~RLess(RAbs(d_in(i, f)), eps)
            THEN RMul(scaled[i][f], RDiv(d_out(i, f), d_in(i, f)))
            ELSE unscaled[i][f]]]

\* The gradient with respect to the inputs of the model when every module
\* with a backward hook of the engine follows the rule: G is the gradient
\* with respect to the output of module k; `same` says whether the gradient
\* scaled is the one left unscaled in the other branch (the gradient with
\* respect to the module's input), or the gradient with respect to the
\* module's output.
RECURSIVE RuleBackward(_, _, _)
RuleBackward(k, G, same) ==
    IF k = 0 THEN G
    ELSE LET trace == BatchTrace(layers, weight, Cat(inputs, baselines))
             grad_input == [i \in 1..Len(G) |->
                 ModuleBackward(layers[k].type, weight, trace[i][k].input, G[i])]
             grad_output == G
         IN  RuleBackward(k - 1,
                 IF EngineIds(backward_hooks[k]) # {}
                 THEN RescaleRule(k, grad_input,
                                  IF same THEN grad_input ELSE grad_output)
                 ELSE grad_input,
                 same)

\* The gradients attribute computes when the hooked modules follow the rule
RuleGradients(same) ==
    LET n == Len(inputs)
        G == RuleBackward(Len(layers),
                 [i \in 1..(2 * n) |-> <<IF i <= n THEN ROne ELSE RZero>>], same)
    IN  [i \in 1..n |-> Unflat(G[i], inputs[i])]

\* C18 as stated: the backward hook returns the locally computed gradient
\* times delta_out / delta_in where |delta_in| >= eps and that same
\* gradient, unscaled, where |delta_in| < eps.
C18_RescaleRuleSameGradient ==
    pc = "validate" => gradients = RuleGradients(TRUE)

\* C18, amended: the backward hook returns grad_output (the gradient with
\* respect to the module's output) times delta_out / delta_in where
\* |delta_in| >= eps, and grad_input (the gradient autograd computed with
\* respect to the module's input) where |delta_in| < eps, for both halves
\* of the batch, delta_in and delta_out being the input half minus the
\* baseline half of the captured input and output.
C18_RescaleRule ==
    pc = "validate" => gradients = RuleGradients(FALSE)

\* The backward pass has run on the ReLU-Linear-ReLU model with weights
\* [2,-1,0,0], input one-hot at channel 2 and baseline one-hot at channel 1:
\* at the last ReLU delta_in = -3 and delta_out = -2 while autograd's own
\* gradient is 0, so the hook gives 2/3; at the first ReLU two features have
\* delta_in = 0 and keep autograd's gradient 0, the two others are scaled
\* by 1.  The gradient is [4/3, -2/3, 0, 0].
C18_Witness ==
    /\ pc = "validate"
    /\ layers = ReLULinearReLUModel
    /\ weight = ScenarioWeight
    /\ inputs = <<OneHotRow(2)>>
    /\ baselines = <<OneHotRow(1)>>
    /\ EngineIds(backward_hooks[1]) # {}
    /\ EngineIds(backward_hooks[3]) # {}
    /\ gradients = << <<(<<Rat(4, 3)>>), <<Rat(-2, 3)>>, <<RZero>>, <<RZero>>>> >>
    /\ gradients # RuleGradients(TRUE)

(***************************************************************************)
(* Interleaved attribute calls on one model                                *)
(***************************************************************************)
\* What the forward pass of caller o stores as module m's input or output
SnapshotOf(o, m, field) ==
    LET trace == BatchTrace(layers, weight, Cat(calls[o].inputs, calls[o].baselines))
    IN  [i \in 1..Len(trace) |->
            IF field = "input" THEN trace[i][m].input ELSE trace[i][m].output]

\* The gradients of caller t when the backward hook of module m reads the
\* snapshot of caller owner[m] (0: the module's gradient is not rewritten)
GradientsFromSnapshotsOf(t, owner) ==
    AutogradGrad(layers, weight, calls[t].inputs, calls[t].baselines,
        [m \in 1..Len(layers) |-> IF owner[m] # 0 THEN {owner[m]} ELSE {}],
        [m \in 1..Len(layers) |->
            IF owner[m] # 0 THEN SnapshotOf(owner[m], m, "input") ELSE NoTensor],
        [m \in 1..Len(layers) |->
            IF owner[m] # 0 THEN SnapshotOf(owner[m], m, "output") ELSE NoTensor])

\* The modules caller t's hooks are on, each owned by t
OwnSnapshots(t) ==
    [m \in 1..Len(layers) |-> IF calls[t].consumed[m] # 0 THEN t ELSE 0]

\* C19: the captures belong to the module, not to the call: a forward pass
\* of any caller overwrites module.input and module.output of every module
\* that carries forward hooks of an engine with the tensors of its own
\* batch, and a backward pass rewrites the gradients from whatever snapshot
\* is stored then, so the gradients of a call are those computed from the
\* snapshots of the caller whose forward pass ran last before its backward
\* pass.
C19_ReentrancyHazard ==
    /\ [][\A t \in Callers :
            (calls[t].pc = "forward" /\ calls'[t].pc = "backward") =>
                \A m \in 1..Len(layers) :
                    /\ (EngineIds(forward_pre_hooks[m]) # {}
                        /\ layers[m].type # "Sequential") =>
                            module_input'[m] = SnapshotOf(t, m, "input")
                    /\ (EngineIds(forward_hooks[m]) # {}
                        /\ layers[m].type # "Sequential") =>
                            module_output'[m] = SnapshotOf(t, m, "output")]_vars
    /\ [](\A t \in DOMAIN calls :
            calls[t].gradients # NoTensor =>
                calls[t].gradients = GradientsFromSnapshotsOf(t, calls[t].consumed))

\* Caller 2 ran its forward pass between the forward and the backward pass
\* of caller 1: caller 2 registered no hook (the ReLU module carried caller
\* 1's backward hook), its forward pass fired caller 1's hooks and replaced
\* the snapshot, and caller 1's backward pass has used the snapshot of
\* caller 2: its gradients are not those of its own snapshot.
C19_Witness ==
    /\ layers = LinearReLUModel
    /\ calls[1].pc = "validate"
    /\ calls[2].pc = "backward"
    /\ calls[2].forward_handles = <<>>
    /\ calls[2].backward_handles = <<>>
    /\ calls[1].consumed[2] = 2
    /\ module_input[2] = SnapshotOf(2, 2, "input")
    /\ module_input[2] # SnapshotOf(1, 2, "input")
    /\ calls[1].gradients # GradientsFromSnapshotsOf(1, OwnSnapshots(1))

(***************************************************************************)
(* Hooks of other consumers                                                *)
(***************************************************************************)
\* The ids of the hooks a list of handles stands for, on module m in the
\* dictionary of the given kinds
IdsOf(handles, m, kinds) ==
    {h.id : h \in {x \in Range(handles) : x.module = m /\ x.kind \in kinds}}

\* C20: a hook of another consumer stays where it is through every step of
\* the engine, so it is registered, once, after attribute returns or raises;
\* a module that carries another consumer's backward hook never gets a hook
\* of the engine; and what the finally clause takes out of a module's hook
\* dictionaries are ids of handles the engine holds, never the id of
\* another consumer's hook.
C20_ForeignHooksPreserved ==
    /\ [][\A m \in 1..Len(layers) :
            /\ (ForeignId \in forward_hooks[m]) = (ForeignId \in forward_hooks'[m])
            /\ (ForeignId \in forward_pre_hooks[m]) = (ForeignId \in forward_pre_hooks'[m])
            /\ (ForeignId \in backward_hooks[m]) = (ForeignId \in backward_hooks'[m])]_vars
    /\ [](\A m \in 1..Len(layers) :
            ForeignId \in backward_hooks[m] =>
                EngineIds(forward_hooks[m] \cup forward_pre_hooks[m]
                          \cup backward_hooks[m]) = {})
    /\ [][pc = "finally" =>
            \A m \in 1..Len(layers) :
                /\ forward_hooks[m] \ forward_hooks'[m]
                      \subseteq IdsOf(forward_handles, m, {"forward"}) \ {ForeignId}
                /\ forward_pre_hooks[m] \ forward_pre_hooks'[m]
                      \subseteq IdsOf(forward_handles, m, {"pre"}) \ {ForeignId}
                /\ backward_hooks[m] \ backward_hooks'[m]
                      \subseteq IdsOf(backward_handles, m, {"backward"}) \ {ForeignId}]_vars

\* attribute has returned on the ReLU-Linear-ReLU model whose first ReLU
\* carries another consumer's backward hook: that hook is still there, the
\* module got no hook and no capture, the other ReLU was hooked and
\* unhooked.
C20_Witness ==
    /\ pc = "returned"
    /\ layers = ReLULinearReLUModel
    /\ backward_hooks[1] = {ForeignId}
    /\ forward_hooks[1] = {}
    /\ forward_pre_hooks[1] = {}
    /\ module_input[1] = NoTensor
    /\ Len(backward_handles) = 1
    /\ backward_handles[1].module = 3
    /\ module_input[3] # NoTensor
    /\ backward_hooks[3] = {}

(***************************************************************************)
(* Several attribute calls on one engine                                   *)
(***************************************************************************)
\* Module m is one the engine hooks: of a type of ignore_layers and without
\* a backward hook of another consumer.
Eligible(m) ==
    layers[m].type \in ignore_layers /\ ~(ForeignId \in backward_hooks[m])

\* C21: through any sequence of attribute calls, while a call is between its
\* registration and its finally clause every eligible module carries exactly
\* one forward-pre, one forward and one backward hook of the engine, no
\* module ever carries two engine hooks of one kind, and after each call,
\* returned or raised, no module carries a hook of the engine.
C21_EngineReuse ==
    /\ \A m \in 1..Len(layers) :
          /\ Cardinality(EngineIds(forward_hooks[m])) <= 1
          /\ Cardinality(EngineIds(forward_pre_hooks[m])) <= 1
          /\ Cardinality(EngineIds(backward_hooks[m])) <= 1
    /\ (pc = "forward" \/ pc = "backward" \/ pc = "validate") =>
          \A m \in 1..Len(layers) :
              Eligible(m) =>
                  /\ Cardinality(EngineIds(forward_hooks[m])) = 1
                  /\ Cardinality(EngineIds(forward_pre_hooks[m])) = 1
                  /\ Cardinality(EngineIds(backward_hooks[m])) = 1
    /\ (pc = "returned" \/ pc = "raised") =>
          \A m \in 1..Len(layers) :
              EngineIds(forward_hooks[m] \cup forward_pre_hooks[m]
                        \cup backward_hooks[m]) = {}

\* The second attribute call has raised in the registration, like the
\* first: the ReLU module on which a legacy backward hook was once
\* registered carries two forward and two forward-pre hooks of the engine,
\* one pair from each call, and the engine holds no handle for them.
C21_DuplicateHooksAfterSecondCall ==
    /\ pc = "raised"
    /\ exc = "RuntimeError"
    /\ ncalls = 2
    /\ forward_handles = <<>>
    /\ backward_handles = <<>>
    /\ \E m \in 1..Len(layers) :
          /\ is_full_backward_hook[m] = "False"
          /\ Cardinality(EngineIds(forward_hooks[m])) = 2
          /\ Cardinality(EngineIds(forward_pre_hooks[m])) = 2
          /\ backward_hooks[m] = {}

\* Two calls on a model free of legacy hooks have returned on one engine:
\* the engine holds the handles of both calls and no module carries a hook
\* of it.
C21_ReusedEngineClean ==
    /\ pc = "returned"
    /\ ncalls = 2
    /\ Len(backward_handles) = 2
    /\ layers = LinearReLUModel
    /\ \A m \in 1..Len(layers) :
          EngineIds(forward_hooks[m] \cup forward_pre_hooks[m]
                    \cup backward_hooks[m]) = {}

====
